---- MODULE Spec2Model ----
(***************************************************************************)
(* A model of imdbx: the retrying HTTP fetch (_http.py), the load-more     *)
(* finder and expander and the season render pool (_browser.py), and the   *)
(* orchestrator (_scraper.py), the episode parser (_parse.py), the image   *)
(* downloader (_http.py) and the TitleInfo aggregate (models.py, load).    *)
(*                                                                         *)
(* The specifications share the variables below; each one leaves the       *)
(* variables of the other parts at their idle values:                      *)
(*   SpecHttp     one call of http_fetch                                   *)
(*   SpecFind     one call of _find_loadmore on a page                     *)
(*   SpecScrape   scrape's season discovery and target selection           *)
(*   SpecExpand   one _fetch_season_page task and its expansion loop       *)
(*   SpecExpandLive   the same, with the steps of the task being taken     *)
(*   Spec         fetch_seasons_async: the pool of _fetch_season_page tasks*)
(*   SpecSeasons  one call of parse_season_numbers on an index page        *)
(*   SpecImage    one call of _best_image on an <img>                      *)
(*   SpecMeta     one call of parse_series_metadata on a title page        *)
(*   SpecParse    one call of parse_episodes on a document                 *)
(*   SpecCard     parse_episodes on one card: the fields of its Episode    *)
(*   SpecTitle    scrape from the renders to `return info`                 *)
(*   SpecDownload one call of download_images on an aggregate              *)
(*   SpecModel    get_episode, save and load on an aggregate               *)
(***************************************************************************)
EXTENDS Integers, Sequences, FiniteSets, TLC

VARIABLES
    \* ---- http_fetch (src/imdbx/_http.py) ----
    h_url,       \* the argument `url`: "title" | "episodes" ("none" before a call)
    h_pc,        \* "idle" | "loop" | "returned" | "raised"
    h_attempt,   \* the loop variable `attempt`
    h_log,       \* the responses of the GETs issued so far, in order
    h_slept,     \* total time.sleep, in half seconds
    h_result,    \* Unset | None | BeautifulSoup(body)
    \* ---- _find_loadmore (src/imdbx/_browser.py) ----
    f_page,      \* the page content: its button and anchor elements, in document order
    f_pc,        \* "idle" | "returned"
    f_el         \* the index in f_page of the returned element, 0 for None
    \* ---- scrape (src/imdbx/_scraper.py) ----
VARIABLES
    only_seasons,  \* the argument: [given |-> FALSE] for None, else the list
    s_pc,          \* "idle" | "meta_fetch" | "season_fetch" | "render" | "raised"
    meta_soup,     \* http_fetch's result for the title page
    season_soup,   \* http_fetch's result for the episodes page
    all_seasons,   \* the season index, after the fallback to [1]
    target         \* the seasons handed to iter_seasons

httpVars == <<h_url, h_pc, h_attempt, h_log, h_slept, h_result>>
findVars == <<f_page, f_pc, f_el>>

    \* ---- fetch_seasons_async and its tasks (src/imdbx/_browser.py) ----
VARIABLES
    season_nums,   \* the argument: the list of seasons to render
    pool_size,     \* the argument
    site,          \* per season: the page the server serves for it
    sem,           \* the semaphore's counter
    m_pc,          \* fetch_seasons_async itself: "idle" | "gather" | "returned" | "raised"
    browser,       \* "none" | "open" | "closed"
    results,       \* the list `results`
    task           \* per entry of season_nums: the state of its fetch_one task

scrapeVars == <<only_seasons, s_pc, meta_soup, season_soup, all_seasons, target>>
poolVars == <<season_nums, pool_size, site, sem, m_pc, browser, results, task>>

    \* ---- parse_episodes (src/imdbx/_parse.py) ----
VARIABLES
    p_doc,         \* the argument `soup`: the elements of the document, in order
    p_pc,          \* "idle" | "returned"
    p_out          \* list(parse_episodes(soup))

parseVars == <<p_doc, p_pc, p_out>>

    \* ---- iter_seasons and the rest of scrape (src/imdbx/_scraper.py) ----
VARIABLES
    r_pc,          \* "idle" | "render" | "iter" | "assembled" | "returned" | "raised"
    r_i,           \* how many entries of `results` iter_seasons has gone through
    r_docs,        \* the documents of these entries, as parse_episodes saw them
    info,          \* the TitleInfo: its seasons as (key, episodes) pairs in dict order
    images_dir     \* the argument: "None" or a directory

titleVars == <<r_pc, r_i, r_docs, info, images_dir>>

    \* ---- download_images, _download_all, _download_one (src/imdbx/_http.py) ----
VARIABLES
    d_pool,        \* the argument pool_size of download_images
    jobs,          \* the list `jobs` of (url, dest)
    d_pc,          \* "idle" | "gather" | "returned"
    d_sem,         \* the counter of _download_all's semaphore
    d_task,        \* per job: the state of its `bounded` task
    files          \* the destinations that exist on disk

downloadVars == <<d_pool, jobs, d_pc, d_sem, d_task, files>>

    \* ---- TitleInfo.get_episode, TitleInfo.save, load (models.py, __init__.py) ----
VARIABLES
    q_pc,        \* "idle" | "returned"
    q_args,      \* get_episode's arguments (season, episode)
    q_out,       \* what get_episode returned: an Episode or NoEpisode
    io_pc,       \* "idle" | "saved" | "loaded"
    disk,        \* the JSON document save wrote (NoFile before)
    loaded       \* the TitleInfo load returned

apiVars == <<q_pc, q_args, q_out, io_pc, disk, loaded>>

    \* ---- parse_season_numbers (src/imdbx/_parse.py) ----
VARIABLES
    n_soup,      \* the argument `soup`
    n_pc,        \* "idle" | "returned" | "raised"
    n_out        \* the list returned

numVars == <<n_soup, n_pc, n_out>>

    \* ---- _best_image (src/imdbx/_parse.py) ----
VARIABLES
    b_img,       \* the <img>: the entries its srcset is written from, and its src
    b_pc,        \* "idle" | "returned"
    b_out        \* the URL returned, NoUrlText for None

imageVars == <<b_img, b_pc, b_out>>

    \* ---- parse_series_metadata (src/imdbx/_parse.py) ----
VARIABLES
    g_soup,      \* the title page: what it holds for the name and the vote count
    g_pc,        \* "idle" | "returned"
    g_meta       \* the SeriesMetadata returned

metaVars == <<g_soup, g_pc, g_meta>>

    \* ---- parse_episodes on one card (src/imdbx/_parse.py) ----
VARIABLES
    c_card,      \* the card: what its finders read in it
    c_pc,        \* "idle" | "returned"
    c_ep         \* the Episode built from the card

cardVars == <<c_card, c_pc, c_ep>>

laterVars == <<parseVars, titleVars, downloadVars, apiVars, numVars, imageVars, metaVars, cardVars>>

vars == <<httpVars, findVars, scrapeVars, poolVars, laterVars>>

(***************************************************************************)
(* Documents                                                               *)
(*                                                                         *)
(* What a parsed page holds for season discovery: the texts of its         *)
(* season-tab markers, the values of its <select> options and its links.   *)
(* "1", "2", ... are digit texts (for a link: an href with ?season=N),     *)
(* "x" is any other text (for a link: an href without a season parameter), *)
(* "sup" is a text of digits that are no decimals, such as a superscript   *)
(* two: str.isdigit() is true of it, int() and the regex \d are not.       *)
(***************************************************************************)
MaxSeason == 2
MaxEntries == 2

ToInt(t) == CHOOSE n \in 1..9 : t = <<"1", "2", "3", "4", "5", "6", "7", "8", "9">>[n]
Digits == { <<"1", "2", "3", "4", "5", "6", "7", "8", "9">>[n] : n \in 1..MaxSeason }
AllDigits == { <<"1", "2", "3", "4", "5", "6", "7", "8", "9">>[n] : n \in 1..9 }
\* t.isdigit()
isdigit(t) == t \in AllDigits \cup {"sup"}
\* what int(t) accepts and \d+ matches
decimal(t) == t \in AllDigits
Tokens == Digits \cup {"x", "sup"}

RECURSIVE SeqsUpTo(_, _)
SeqsUpTo(S, n) ==
    IF n = 0 THEN {<<>>}
    ELSE LET shorter == SeqsUpTo(S, n - 1)
         IN  shorter \cup { Append(q, e) : q \in { r \in shorter : Len(r) = n - 1 }, e \in S }

EmptyDocument == [tabs |-> <<>>, options |-> <<>>, links |-> <<>>]

\* the documents with at most MaxEntries season-related elements
Documents ==
    UNION { UNION { { [tabs |-> t, options |-> o, links |-> l] :
                        l \in SeqsUpTo(Tokens, MaxEntries - Len(t) - Len(o)) } :
                    o \in SeqsUpTo(Tokens, MaxEntries - Len(t)) } :
            t \in SeqsUpTo(Tokens, MaxEntries) }

\* a title page: no season markup, at most one other link
TitleDocuments == { d \in Documents : d.tabs = <<>> /\ d.options = <<>> /\ d.links \in {<<>>, <<"x">>} }

(***************************************************************************)
(* http_fetch                                                              *)
(***************************************************************************)
\* http_fetch(url, session, retries=3)
HttpRetries == 3

\* The pages scrape fetches over plain HTTP: /title/<id>/ and /title/<id>/episodes/
Urls == {"title", "episodes"}

\* the bodies a server may answer with
Bodies(url) == IF url = "title" THEN TitleDocuments ELSE Documents

\* niquests.exceptions.RequestException and the subclasses session.get and
\* raise_for_status raise: transport errors and non-2xx statuses.
RequestException == {"ConnectionError", "Timeout", "HTTPError"}

\* Anything else session.get may raise is no RequestException.
Raisable == RequestException \cup {"OtherError"}

\* What one `session.get(url); resp.raise_for_status()` can do.
Responses(url) ==
    [kind : {"ok"}, body : Bodies(url), exc : {"-"}]
    \cup [kind : {"exc"}, body : {EmptyDocument}, exc : Raisable]

\* `except niquests.exceptions.RequestException`
HttpCaught(exc) == exc \in RequestException

IsFailure(r) == r.kind = "exc"

\* http_fetch's results: BeautifulSoup(resp.text, "html.parser"), or None
BeautifulSoup(body) == [kind |-> "soup", soup |-> body]
None == [kind |-> "None", soup |-> EmptyDocument]
Unset == [kind |-> "unset", soup |-> EmptyDocument]

\* `for attempt in range(1, retries + 1)`: is there an iteration after `attempt`?
HttpLoopContinuesBad(attempt, retries) == attempt + 1 < retries
HttpLoopContinues(attempt, retries) == attempt < retries

\* the call: the loop starts with attempt = 1
http_fetch_call(url) ==
    /\ h_pc = "idle"
    /\ h_url' = url
    /\ h_pc' = "loop"
    /\ h_attempt' = 1
    /\ UNCHANGED <<h_log, h_slept, h_result>>

\* one iteration of the loop: GET, raise_for_status, then either the return of
\* the parsed body or the except clause with its backoff sleep.
http_fetch_attempt(r) ==
    /\ h_pc = "loop"
    /\ h_log' = Append(h_log, r)
    /\ UNCHANGED h_url
    /\ IF ~IsFailure(r)
         THEN /\ h_result' = BeautifulSoup(r.body)
              /\ h_pc' = "returned"
              /\ UNCHANGED <<h_attempt, h_slept>>
         ELSE IF ~HttpCaught(r.exc)
           THEN /\ h_pc' = "raised"
                /\ UNCHANGED <<h_attempt, h_slept, h_result>>
           ELSE IF HttpLoopContinues(h_attempt, HttpRetries)
             THEN /\ h_slept' = h_slept + 3 * h_attempt
                  /\ h_attempt' = h_attempt + 1
                  /\ UNCHANGED <<h_pc, h_result>>
             ELSE /\ h_result' = None
                  /\ h_pc' = "returned"
                  /\ UNCHANGED <<h_attempt, h_slept>>

HttpIdle ==
    /\ h_url = "none"
    /\ h_pc = "idle"
    /\ h_attempt = 0
    /\ h_log = <<>>
    /\ h_slept = 0
    /\ h_result = Unset

HttpInit == HttpIdle

(***************************************************************************)
(* _is_navigating_href and _find_loadmore                                  *)
(*                                                                         *)
(* An href is a sequence of pieces: "sp" is white space, "#" the character *)
(* '#', "js" the text 'javascript:', "JS" the same text in another case    *)
(* ('JavaScript:'), and "p" any other text (a path such as /search/title). *)
(***************************************************************************)
Lower(piece) == IF piece = "JS" THEN "js" ELSE piece

RECURSIVE LStrip(_)
LStrip(h) == IF h # <<>> /\ Head(h) = "sp" THEN LStrip(Tail(h)) ELSE h

RECURSIVE RStrip(_)
RStrip(h) ==
    IF h # <<>> /\ h[Len(h)] = "sp" THEN RStrip(SubSeq(h, 1, Len(h) - 1)) ELSE h

\* str.strip()
Strip(h) == RStrip(LStrip(h))

\* h.startswith(piece), for a one-piece prefix
StartsWith(h, piece) == h # <<>> /\ Head(h) = piece

\* h.lower().startswith("javascript:")
LowerStartsWithJs(h) == h # <<>> /\ Lower(Head(h)) = "js"

_is_navigating_href(href) ==
    IF href = <<>>
      THEN FALSE
      ELSE LET h == Strip(href)
           IN  IF h = <<>> \/ StartsWith(h, "#") \/ LowerStartsWithJs(h)
                 THEN FALSE
                 ELSE TRUE

\* _INLINE_MORE = \d+\s+more | see\s+all | load\s+more, case-insensitive.
\* "Show more" is the text the pattern leaves out on purpose.
Texts == {"12 more", "Show more"}
_INLINE_MORE(text) == text \in {"12 more", "See all", "load more"}

\* data-testid of the element or of an ancestor ("" when there is none)
TestIds == {"", "see-more", "load-more", "expand"}

\* get_attribute("href") or "": an absent attribute reads as the empty href
Hrefs == { <<>>, <<"#">>, <<"#", "p">>, <<"JS", "p">>, <<"sp">>, <<"p">> }

\* An element of the page, as the locators of _find_loadmore see it:
\* visible ones only, buttons and anchors only.
AllElements ==
    [tag : {"button", "a"}, text : Texts, disabled : BOOLEAN,
     aria_disabled : BOOLEAN, href : Hrefs, testid : TestIds,
     aria_label_more : BOOLEAN]

\* the signals a strategy looks for: matching text, a marker, a label
Signals(e) ==
    (IF _INLINE_MORE(e.text) THEN 1 ELSE 0)
    + (IF e.testid # "" THEN 1 ELSE 0)
    + (IF e.aria_label_more THEN 1 ELSE 0)

\* The elements the pages are drawn from: a button has no href, only a
\* button can carry `disabled`, and an element carries at most one signal.
Elements ==
    { e \in AllElements :
        /\ e.tag = "button" => e.href = <<>>
        /\ e.tag = "a" => ~e.disabled
        /\ Signals(e) <= 1 }

MaxElems == 2

\* the pages of at most MaxElems elements, in document order
Pages == UNION { [1..n -> Elements] : n \in 0..MaxElems }

\* page.locator(selector): the indices of the matching elements, in document order
Locator(page, Matches(_)) == { i \in 1..Len(page) : Matches(page[i]) }

Min(S) == CHOOSE x \in S : \A y \in S : x <= y

\* the first index of S that passes Ok, or 0
FirstPassing(S, Ok(_)) ==
    LET passing == { i \in S : Ok(i) }
    IN  IF passing = {} THEN 0 ELSE Min(passing)

\* Strategy 1: <button> whose text matches and which is enabled
Strategy1(page) ==
    LET IsButton(e) == e.tag = "button"
        Ok(i) == _INLINE_MORE(page[i].text) /\ ~page[i].disabled
    IN  FirstPassing(Locator(page, IsButton), Ok)

\* Strategy 2: <a> without a navigating href whose text matches
Strategy2(page) ==
    LET IsAnchor(e) == e.tag = "a"
        Ok(i) == /\ ~_is_navigating_href(page[i].href)
                 /\ _INLINE_MORE(page[i].text)
                 /\ ~page[i].aria_disabled
    IN  FirstPassing(Locator(page, IsAnchor), Ok)

\* Strategy 3, one (frag, tag) round: only loc.first is looked at
Strategy3RoundUnfiltered(page, frag, tag) ==
    LET Marked(e) == e.tag = tag /\ e.testid = frag
        loc == Locator(page, Marked)
    IN  IF loc = {} THEN 0
        ELSE IF ~page[Min(loc)].aria_disabled THEN Min(loc)
        ELSE 0

Strategy3Round(page, frag, tag) ==
    LET Marked(e) == e.tag = tag /\ e.testid = frag
        loc == Locator(page, Marked)
    IN  IF loc = {} THEN 0
        ELSE LET el == Min(loc)
             IN  IF tag = "a" /\ _is_navigating_href(page[el].href) THEN 0
                 ELSE IF ~page[el].aria_disabled THEN el
                 ELSE 0

Strategy3Rounds ==
    << <<"see-more", "button">>, <<"see-more", "a">>,
       <<"load-more", "button">>, <<"load-more", "a">>,
       <<"expand", "button">>, <<"expand", "a">> >>

RECURSIVE FirstRound(_, _)
FirstRound(page, k) ==
    IF k > Len(Strategy3Rounds) THEN 0
    ELSE LET r == Strategy3Round(page, Strategy3Rounds[k][1], Strategy3Rounds[k][2])
         IN  IF r # 0 THEN r ELSE FirstRound(page, k + 1)

Strategy3(page) == FirstRound(page, 1)

\* Strategy 4, for one tag: every element with a matching aria-label
Strategy4Tag(page, tag) ==
    LET Labelled(e) == e.tag = tag /\ e.aria_label_more
        Ok(i) == /\ ~(tag = "a" /\ _is_navigating_href(page[i].href))
                 /\ ~page[i].aria_disabled
    IN  FirstPassing(Locator(page, Labelled), Ok)

Strategy4(page) ==
    IF Strategy4Tag(page, "button") # 0 THEN Strategy4Tag(page, "button")
    ELSE Strategy4Tag(page, "a")

\* the element _find_loadmore returns (its index), or 0 for None
FindLoadmoreAnchorsFirst(page) ==
    IF Strategy2(page) # 0 THEN Strategy2(page)
    ELSE IF Strategy1(page) # 0 THEN Strategy1(page)
    ELSE IF Strategy3(page) # 0 THEN Strategy3(page)
    ELSE Strategy4(page)
FindLoadmore(page) ==
    IF Strategy1(page) # 0 THEN Strategy1(page)
    ELSE IF Strategy2(page) # 0 THEN Strategy2(page)
    ELSE IF Strategy3(page) # 0 THEN Strategy3(page)
    ELSE Strategy4(page)

_find_loadmore ==
    /\ f_pc = "idle"
    /\ f_el' = FindLoadmore(f_page)
    /\ f_pc' = "returned"
    /\ UNCHANGED f_page

FindIdle ==
    /\ f_page = <<>>
    /\ f_pc = "idle"
    /\ f_el = 0

FindInit ==
    /\ f_page \in Pages
    /\ f_pc = "idle"
    /\ f_el = 0

(***************************************************************************)
(* parse_season_numbers and scrape's choice of the target seasons          *)
(***************************************************************************)
Range(q) == { q[i] : i \in 1..Len(q) }

\* sorted(found)
RECURSIVE sorted(_)
sorted(S) == IF S = {} THEN <<>> ELSE <<Min(S)>> \o sorted(S \ {Min(S)})

\* the numbers one of the first two strategies adds to `found`:
\* `if t.isdigit(): found.add(int(t))`
FoundIn(texts) == { ToInt(texts[i]) : i \in { j \in 1..Len(texts) : isdigit(texts[j]) } }

\* ... where int(t) raises ValueError for a text that is no decimal number
IntRaises(texts) == \E i \in 1..Len(texts) : isdigit(texts[i]) /\ ~decimal(texts[i])

\* the numbers of the third: the links whose href matches \?season=\d+
FoundInLinks(hrefs) == { ToInt(hrefs[i]) : i \in { j \in 1..Len(hrefs) : decimal(hrefs[j]) } }

\* parse_season_numbers raises ValueError: in the first loop, or in the
\* second when the first found nothing
ParseSeasonNumbersRaises(soup) ==
    IF IntRaises(soup.tabs) THEN TRUE
    ELSE FoundIn(soup.tabs) = {} /\ IntRaises(soup.options)

\* what it returns when it does not raise
parse_season_numbers(soup) ==
    LET found == IF FoundIn(soup.tabs) # {} THEN FoundIn(soup.tabs)
                 ELSE IF FoundIn(soup.options) # {} THEN FoundIn(soup.options)
                 ELSE FoundInLinks(soup.links)
    IN  sorted(found)

\* one call of parse_season_numbers(soup)
season_numbers_return ==
    /\ n_pc = "idle"
    /\ ~ParseSeasonNumbersRaises(n_soup)
    /\ n_out' = parse_season_numbers(n_soup)
    /\ n_pc' = "returned"
    /\ UNCHANGED n_soup

season_numbers_raise ==
    /\ n_pc = "idle"
    /\ ParseSeasonNumbersRaises(n_soup)
    /\ n_pc' = "raised"
    /\ UNCHANGED <<n_soup, n_out>>

NumIdle ==
    /\ n_soup = EmptyDocument
    /\ n_pc = "idle"
    /\ n_out = <<>>

\* the index pages it is tried on: at most MaxTabs season tabs, at most one
\* option and one link
MaxTabs == 4
SeasonTexts == {"1", "2", "3", "x", "sup"}

IndexDocuments ==
    { [tabs |-> t, options |-> o, links |-> l] :
        t \in UNION { [1..n -> SeasonTexts] : n \in 0..MaxTabs },
        o \in UNION { [1..n -> SeasonTexts] : n \in 0..1 },
        l \in UNION { [1..n -> SeasonTexts] : n \in 0..1 } }

NumInit ==
    /\ n_soup \in IndexDocuments
    /\ n_pc = "idle"
    /\ n_out = <<>>

\* the truth value of `only_seasons`: None and the empty list are both false
Truthy(o) == o.given /\ o.list # <<>>

InList(s, list) == s \in Range(list)

\* target = [s for s in all_seasons if s in only_seasons] if only_seasons else all_seasons
Target(all, only) ==
    IF Truthy(only)
      THEN LET Keep(x) == InList(x, only.list) IN SelectSeq(all, Keep)
      ELSE all

NoSelection == [given |-> FALSE, list |-> <<>>]
MaxSelect == 2
Selections ==
    {NoSelection} \cup [given : {TRUE}, list : SeqsUpTo(1..MaxSeason, MaxSelect)]

\* scrape is called: make_session, then the fetch of the title page starts
scrape_call ==
    /\ s_pc = "idle"
    /\ http_fetch_call("title")
    /\ s_pc' = "meta_fetch"
    /\ UNCHANGED <<only_seasons, meta_soup, season_soup, all_seasons, target>>

\* a GET of the fetch scrape is waiting for
scrape_http_attempt ==
    /\ s_pc \in {"meta_fetch", "season_fetch"}
    /\ \E r \in Responses(h_url) : http_fetch_attempt(r)
    /\ UNCHANGED scrapeVars

\* the title page's fetch returned: keep the result, fetch the episodes page
scrape_after_meta ==
    /\ s_pc = "meta_fetch"
    /\ h_pc = "returned"
    /\ meta_soup' = h_result
    /\ h_url' = "episodes"
    /\ h_pc' = "loop"
    /\ h_attempt' = 1
    /\ h_log' = <<>>
    /\ h_slept' = 0
    /\ h_result' = Unset
    /\ s_pc' = "season_fetch"
    /\ UNCHANGED <<only_seasons, season_soup, all_seasons, target>>

\* the episodes page's fetch returned: parse the index, fall back to [1],
\* select the target and hand it to iter_seasons
scrape_select_target ==
    /\ s_pc = "season_fetch"
    /\ h_pc = "returned"
    /\ ~(h_result.kind = "soup" /\ ParseSeasonNumbersRaises(h_result.soup))
    /\ season_soup' = h_result
    /\ LET parsed == parse_season_numbers(
                        IF h_result.kind = "soup" THEN h_result.soup ELSE EmptyDocument)
           all == IF parsed = <<>> THEN <<1>> ELSE parsed
       IN  /\ all_seasons' = all
           /\ target' = Target(all, only_seasons)
    /\ s_pc' = "render"
    /\ h_url' = "none"
    /\ h_pc' = "idle"
    /\ h_attempt' = 0
    /\ h_log' = <<>>
    /\ h_slept' = 0
    /\ h_result' = Unset
    /\ UNCHANGED <<only_seasons, meta_soup>>

\* the ValueError of parse_season_numbers leaves scrape
scrape_parse_raise ==
    /\ s_pc = "season_fetch"
    /\ h_pc = "returned"
    /\ h_result.kind = "soup"
    /\ ParseSeasonNumbersRaises(h_result.soup)
    /\ season_soup' = h_result
    /\ s_pc' = "raised"
    /\ UNCHANGED <<httpVars, only_seasons, meta_soup, all_seasons, target>>

\* an exception http_fetch does not catch leaves scrape
scrape_raise ==
    /\ s_pc \in {"meta_fetch", "season_fetch"}
    /\ h_pc = "raised"
    /\ s_pc' = "raised"
    /\ UNCHANGED <<httpVars, only_seasons, meta_soup, season_soup, all_seasons, target>>

ScrapeIdle ==
    /\ only_seasons = NoSelection
    /\ s_pc = "idle"
    /\ meta_soup = Unset
    /\ season_soup = Unset
    /\ all_seasons = <<>>
    /\ target = <<>>

ScrapeInit ==
    /\ only_seasons \in Selections
    /\ s_pc = "idle"
    /\ meta_soup = Unset
    /\ season_soup = Unset
    /\ all_seasons = <<>>
    /\ target = <<>>

(***************************************************************************)
(* The season pages                                                        *)
(*                                                                         *)
(* The page of a season starts with `initial` cards and holds a row of     *)
(* load-more controls, found and clicked one after the other:              *)
(*   "more"    a click reveals k further cards and consumes the control    *)
(*   "dud"     a click reveals nothing and consumes the control            *)
(*   "sticky"  a click reveals nothing and the control stays               *)
(*   "nav"     a click navigates away from the page                        *)
(* Loading the page again gives the page as it was first served.           *)
(***************************************************************************)
Kinds == {"more", "dud", "sticky", "nav"}

MaxInitial == 1
MaxReveal == 2
MaxControls == 2
MaxClicks == 3
MaxPool == 2

Sites == [initial : 0..MaxInitial, k : 1..MaxReveal, controls : SeqsUpTo(Kinds, MaxControls)]

\* a page that takes the expansion through every kind of control
BusySite == [initial |-> 1, k |-> 1, controls |-> <<"more", "dud", "nav">>]
PlainSite == [initial |-> 1, k |-> 1, controls |-> <<>>]

\* what an awaited browser operation can do: return, raise PWTimeout, raise another error
Outcomes == {"ok", "timeout", "error"}

Tasks == 1..Len(season_nums)

\* the state of a task before it has the semaphore
NewTask ==
    [pc |-> "start", attempt |-> 0, contexts |-> 0, pages |-> 0,
     url |-> "blank", cards |-> 0, consumed |-> 0,
     click_count |-> 0, before_count |-> 0, before_url |-> "blank",
     loop_end |-> "-", idle |-> "-", pending |-> "-",
     html |-> [url |-> "blank", cards |-> 0], raised_in |-> "-"]

\* the pair a task appends: (season_num, soup) or (season_num, None)
Soup(n, html) == [season |-> n, kind |-> "soup", url |-> html.url, cards |-> html.cards]
NoSoup(n) == [season |-> n, kind |-> "None", url |-> "blank", cards |-> 0]

SiteOf(i) == site[season_nums[i]]

\* the load-more control _find_loadmore would return on task i's page, or "-"
Candidate(i) ==
    IF task[i].url = "season" /\ task[i].consumed < Len(SiteOf(i).controls)
      THEN SiteOf(i).controls[task[i].consumed + 1]
      ELSE "-"

Holding(t) == t.pc \notin {"start", "done", "raised", "cancelled"}

Ended(t) == t.pc \in {"done", "raised", "cancelled"}

\* `async with sem` is left: the slot goes back
Release(counter) == counter + 1

\* sem.acquire() can complete
CanAcquireAlways(counter) == counter >= 0
CanAcquire(counter) == counter > 0

\* _fetch_season_page(..., retries=3)
FetchRetries == 3

\* `for attempt in range(1, retries + 1)` ... `if attempt < retries`
HasNextAttemptNever(attempt, retries) == FALSE
HasNextAttempt(attempt, retries) == attempt < retries

\* page.goto(url) loaded: the page as first served
Loaded(t, st) == [t EXCEPT !.url = "season", !.cards = st.initial, !.consumed = 0]

\* an exception leaves _fetch_season_page and fetch_one: the task ends and the
\* semaphore's __aexit__ gives the slot back
TaskRaises(i) ==
    /\ task' = [task EXCEPT ![i].pc = "raised", ![i].raised_in = task[i].pc]
    /\ sem' = Release(sem)
    /\ UNCHANGED <<season_nums, pool_size, site, m_pc, browser, results>>

\* a step of task i that touches nothing but the task
TaskStep(i, t) ==
    /\ task' = [task EXCEPT ![i] = t]
    /\ UNCHANGED <<season_nums, pool_size, site, sem, m_pc, browser, results>>

\* the loop of _expand_episodes is left; what follows is the count at the
\* end of _expand_episodes and page.content()
LoopEndsOrFails(t, how) ==
    IF how \in {"timeout", "error"}
      THEN [t EXCEPT !.pc = "close_page", !.pending = "failed", !.click_count = 0,
                     !.before_count = 0, !.before_url = "blank", !.loop_end = "-",
                     !.idle = "-"]
      ELSE [t EXCEPT !.pc = "content", !.loop_end = how]
LoopEnds(t, how) == [t EXCEPT !.pc = "content", !.loop_end = how]

\* the wait for more cards succeeded: the 0.3 s sleep, then the next round
AfterGrowthBreaks(t) == LoopEnds(t, "done")
AfterGrowth(t) == [t EXCEPT !.pc = "scan"]

\* context.close() returned
ContextLeftOpen(t) == t
ContextClosed(t) == [t EXCEPT !.contexts = @ - 1]

\* the try block of _fetch_season_page is left by an exception: the finally
\* clause runs, then the next attempt or (season_num, None)
\* (the locals of _expand_episodes are gone with its frame)
AttemptFails(t) ==
    [t EXCEPT !.pc = "close_page", !.pending = "failed", !.click_count = 0,
              !.before_count = 0, !.before_url = "blank", !.loop_end = "-",
              !.idle = "-"]

\* `async with sem:` entered, the first attempt begins
acquire(i) ==
    /\ task[i].pc = "start"
    /\ CanAcquire(sem)
    /\ sem' = sem - 1
    /\ task' = [task EXCEPT ![i].pc = "new_context", ![i].attempt = 1]
    /\ UNCHANGED <<season_nums, pool_size, site, m_pc, browser, results>>

\* browser.new_context(...)
new_context(i, raises) ==
    /\ task[i].pc = "new_context"
    /\ IF raises
         THEN TaskRaises(i)
         ELSE TaskStep(i, [task[i] EXCEPT !.pc = "new_page", !.contexts = @ + 1])

\* context.route(...) and context.new_page(): outside the try block
new_page(i, raises) ==
    /\ task[i].pc = "new_page"
    /\ IF raises
         THEN TaskRaises(i)
         ELSE TaskStep(i, [task[i] EXCEPT !.pc = "goto", !.pages = @ + 1,
                                          !.url = "blank", !.cards = 0, !.consumed = 0])

\* page.goto(url, timeout=30_000)
goto(i, o) ==
    /\ task[i].pc = "goto"
    /\ IF o = "ok"
         THEN TaskStep(i, [Loaded(task[i], SiteOf(i)) EXCEPT !.pc = "wait_selector"])
         ELSE TaskStep(i, AttemptFails(task[i]))

\* page.wait_for_selector("article", timeout=15_000), then _expand_episodes starts
wait_for_selector(i, o) ==
    /\ task[i].pc = "wait_selector"
    /\ o = "ok" => task[i].cards >= 1
    /\ IF o = "ok"
         THEN TaskStep(i, [task[i] EXCEPT !.pc = "scan", !.click_count = 0,
                                          !.loop_end = "-"])
         ELSE TaskStep(i, AttemptFails(task[i]))

\* Scanning: _find_loadmore, then the card count and the URL before the click.
\* These awaits are outside the try block of _expand_episodes.
scan(i, o) ==
    /\ task[i].pc = "scan"
    /\ IF o # "ok"
         THEN TaskStep(i, AttemptFails(task[i]))
         ELSE IF Candidate(i) = "-"
           THEN TaskStep(i, LoopEnds([task[i] EXCEPT !.idle = "-"], "done"))
           ELSE TaskStep(i, [task[i] EXCEPT !.pc = "click", !.idle = "-",
                                            !.before_count = task[i].cards,
                                            !.before_url = task[i].url])

\* what a click does to the page
Clicked(t, st, kind) ==
    IF kind = "more" THEN [t EXCEPT !.cards = @ + st.k, !.consumed = @ + 1]
    ELSE IF kind = "dud" THEN [t EXCEPT !.consumed = @ + 1]
    ELSE IF kind = "nav" THEN [t EXCEPT !.url = "other", !.cards = 0]
    ELSE t

\* `click_count += 1`.  The loop has no limit of its own; the count is kept
\* up to MaxClicks, which then reads "MaxClicks clicks or more".
Counted(n) == IF n < MaxClicks THEN n + 1 ELSE n

\* Clicking: inner_text, scroll_into_view_if_needed, click, the settle delay
\* and the comparison of page.url with before_url
click(i, o) ==
    /\ task[i].pc = "click"
    /\ IF o = "timeout" THEN TaskStep(i, LoopEnds(task[i], "timeout"))
       ELSE IF o = "error" THEN TaskStep(i, LoopEnds(task[i], "error"))
       ELSE LET t == [Clicked(task[i], SiteOf(i), Candidate(i))
                        EXCEPT !.click_count = Counted(@)]
            IN  IF t.url # t.before_url
                  THEN TaskStep(i, [t EXCEPT !.pc = "regoto"])
                  ELSE TaskStep(i, [t EXCEPT !.pc = "wait_growth"])

\* navigation detected: page.goto(episode_url, timeout=30_000)
regoto(i, o) ==
    /\ task[i].pc = "regoto"
    /\ IF o = "ok" THEN TaskStep(i, [Loaded(task[i], SiteOf(i)) EXCEPT !.pc = "rewait"])
       ELSE TaskStep(i, LoopEnds(task[i], o))

\* ... then page.wait_for_selector("article", timeout=15_000) and break
rewait(i, o) ==
    /\ task[i].pc = "rewait"
    /\ o = "ok" => task[i].cards >= 1
    /\ IF o = "ok" THEN TaskStep(i, LoopEnds(task[i], "aborted"))
       ELSE TaskStep(i, LoopEnds(task[i], o))

\* Waiting: page.wait_for_function("...length > before_count", timeout=12_000);
\* on success the 0.3 s sleep and the next round
wait_for_function(i, o) ==
    /\ task[i].pc = "wait_growth"
    /\ o = "ok" <=> (o # "error" /\ task[i].cards > task[i].before_count)
    /\ IF o = "ok" THEN TaskStep(i, AfterGrowth(task[i]))
       ELSE IF o = "timeout" THEN TaskStep(i, [task[i] EXCEPT !.pc = "wait_idle"])
       ELSE TaskStep(i, LoopEnds(task[i], "error"))

\* where the loop goes after page.wait_for_load_state("networkidle") in the
\* handler of the inner PWTimeout: its own PWTimeout reaches `except PWTimeout: break`
\* (`idle` keeps how that wait ended until the task's next step)
AfterIdleRescan(t, o) == [t EXCEPT !.pc = "scan", !.idle = o]
AfterIdle(t, o) ==
    IF o = "ok" THEN [t EXCEPT !.pc = "scan", !.idle = o]
    ELSE LoopEnds([t EXCEPT !.idle = o], o)

\* page.wait_for_load_state("networkidle", timeout=8_000)
wait_for_load_state(i, o) ==
    /\ task[i].pc = "wait_idle"
    /\ TaskStep(i, AfterIdle(task[i], o))

\* after the loop: the card count and page.content()
content(i, o) ==
    /\ task[i].pc = "content"
    /\ IF o = "ok"
         THEN TaskStep(i, [task[i] EXCEPT
                             !.pc = "close_page", !.pending = "return", !.idle = "-",
                             !.html = [url |-> task[i].url, cards |-> task[i].cards]])
         ELSE TaskStep(i, AttemptFails(task[i]))

\* finally: page.close()
close_page(i, raises) ==
    /\ task[i].pc = "close_page"
    /\ IF raises
         THEN TaskRaises(i)
         ELSE TaskStep(i, [task[i] EXCEPT !.pc = "close_context", !.pages = @ - 1,
                                          !.url = "blank", !.cards = 0, !.consumed = 0])

\* finally: context.close(); then the return of the pair, which fetch_one
\* appends before it leaves `async with sem`, or the backoff before the next attempt
close_context(i, raises) ==
    /\ task[i].pc = "close_context"
    /\ IF raises THEN TaskRaises(i)
       ELSE LET t == ContextClosed(task[i])
                n == season_nums[i]
            IN  IF t.pending = "return"
                  THEN /\ task' = [task EXCEPT ![i] = [t EXCEPT !.pc = "done"]]
                       /\ results' = Append(results, Soup(n, t.html))
                       /\ sem' = Release(sem)
                       /\ UNCHANGED <<season_nums, pool_size, site, m_pc, browser>>
                  ELSE IF HasNextAttempt(t.attempt, FetchRetries)
                    THEN TaskStep(i, [t EXCEPT !.pc = "backoff"])
                    ELSE /\ task' = [task EXCEPT ![i] = [t EXCEPT !.pc = "done"]]
                         /\ results' = Append(results, NoSoup(n))
                         /\ sem' = Release(sem)
                         /\ UNCHANGED <<season_nums, pool_size, site, m_pc, browser>>

\* asyncio.sleep(2 * attempt) is over: the next attempt
backoff(i) ==
    /\ task[i].pc = "backoff"
    /\ TaskStep(i, [task[i] EXCEPT !.pc = "new_context", !.attempt = @ + 1,
                                   !.pending = "-"])

\* gather returned (every task is done): browser.close(), return results
fetch_seasons_return_at_first ==
    /\ m_pc = "gather"
    /\ \E i \in Tasks : task[i].pc = "done"
    /\ m_pc' = "returned"
    /\ browser' = "closed"
    /\ UNCHANGED <<season_nums, pool_size, site, sem, results, task>>
fetch_seasons_return ==
    /\ m_pc = "gather"
    /\ \A i \in Tasks : task[i].pc = "done"
    /\ m_pc' = "returned"
    /\ browser' = "closed"
    /\ UNCHANGED <<season_nums, pool_size, site, sem, results, task>>

\* gather passes on the first exception of a task: fetch_seasons_async leaves
\* `async with async_playwright()` without browser.close() and raises
fetch_seasons_raise ==
    /\ m_pc = "gather"
    /\ \E i \in Tasks : task[i].pc = "raised"
    /\ m_pc' = "raised"
    /\ UNCHANGED <<season_nums, pool_size, site, sem, browser, results, task>>

\* asyncio.run ends after the exception: it cancels the tasks still pending
cancel(i) ==
    /\ m_pc = "raised"
    /\ ~Ended(task[i])
    /\ task' = [task EXCEPT ![i].pc = "cancelled"]
    /\ sem' = IF Holding(task[i]) THEN Release(sem) ELSE sem
    /\ UNCHANGED <<season_nums, pool_size, site, m_pc, browser, results>>

PoolIdle ==
    /\ season_nums = <<>>
    /\ pool_size = 0
    /\ site = <<>>
    /\ sem = 0
    /\ m_pc = "idle"
    /\ browser = "none"
    /\ results = <<>>
    /\ task = <<>>

\* fetch_seasons_async has launched the browser and created the tasks
PoolStarted ==
    /\ pool_size \in 1..MaxPool
    /\ sem = pool_size
    /\ m_pc = "gather"
    /\ browser = "open"
    /\ results = <<>>
    /\ task = [i \in 1..Len(season_nums) |-> NewTask]

SeasonLists == { <<1>>, <<1, 2>>, <<2, 1>> }

\* the pool with several seasons
PoolInit ==
    /\ season_nums \in SeasonLists
    /\ site \in [Range(season_nums) -> {PlainSite, BusySite}]
    /\ PoolStarted

\* one season, any page
ExpandInit ==
    /\ season_nums = <<1>>
    /\ site \in [{1} -> Sites]
    /\ PoolStarted

Others == <<httpVars, findVars, scrapeVars, laterVars>>

ExpandNext ==
    \/ \E i \in Tasks : acquire(i) /\ UNCHANGED Others
    \/ \E i \in Tasks, raises \in BOOLEAN : new_context(i, raises) /\ UNCHANGED Others
    \/ \E i \in Tasks, raises \in BOOLEAN : new_page(i, raises) /\ UNCHANGED Others
    \/ \E i \in Tasks, o \in Outcomes : goto(i, o) /\ UNCHANGED Others
    \/ \E i \in Tasks, o \in Outcomes : wait_for_selector(i, o) /\ UNCHANGED Others
    \/ \E i \in Tasks, o \in Outcomes : scan(i, o) /\ UNCHANGED Others
    \/ \E i \in Tasks, o \in Outcomes : click(i, o) /\ UNCHANGED Others
    \/ \E i \in Tasks, o \in Outcomes : regoto(i, o) /\ UNCHANGED Others
    \/ \E i \in Tasks, o \in Outcomes : rewait(i, o) /\ UNCHANGED Others
    \/ \E i \in Tasks, o \in Outcomes : wait_for_function(i, o) /\ UNCHANGED Others
    \/ \E i \in Tasks, o \in Outcomes : wait_for_load_state(i, o) /\ UNCHANGED Others
    \/ \E i \in Tasks, o \in Outcomes : content(i, o) /\ UNCHANGED Others
    \/ \E i \in Tasks, raises \in BOOLEAN : close_page(i, raises) /\ UNCHANGED Others
    \/ \E i \in Tasks, raises \in BOOLEAN : close_context(i, raises) /\ UNCHANGED Others
    \/ \E i \in Tasks : backoff(i) /\ UNCHANGED Others
    \/ fetch_seasons_return /\ UNCHANGED Others
    \/ fetch_seasons_raise /\ UNCHANGED Others

Next ==
    \/ ExpandNext
    \/ \E i \in Tasks : cancel(i) /\ UNCHANGED Others

(***************************************************************************)
(* Episode cards and parse_episodes                                        *)
(*                                                                         *)
(* A rendered document is the sequence of its elements that card discovery *)
(* looks at.  Of an element the model keeps:                               *)
(*   tag             "article" or "div" (any other tag)                    *)
(*   testid_episode  its data-testid contains "episode"                    *)
(*   ep_link         it contains a link to /title/tt<digits>/?ref_=ttep    *)
(*   se              its text contains S<digits>.E<digits>                 *)
(*   code            the (season, episode) of an S<n>.E<m> at the start of *)
(*                   its title text, <<0, 0>> when there is none           *)
(*   cover           the URL _find_cover_image finds in it, or "None"      *)
(***************************************************************************)
MaxEpisode == 2
MaxCards == 2

\* the cover URLs, by the extension of their path
Covers == {"None", "a.jpg", "b.png"}

\* the codes on the page of season n
Codes(n) == {<<0, 0>>} \cup { <<n, e>> : e \in 1..MaxEpisode }

\* The elements of the page of season n.  What the parser never reads is left
\* out: an element without S#.E# text is no card, so its code and cover are
\* not drawn, and the link is looked for in articles only.
CardElements(n) ==
    { x \in [tag : {"article", "div"}, testid_episode : BOOLEAN, ep_link : BOOLEAN,
             se : BOOLEAN, code : Codes(n), cover : Covers] :
        /\ x.tag = "div" => ~x.ep_link
        /\ ~x.se => x.code = <<0, 0>> /\ x.cover = "None" }

\* the documents of at most MaxCards elements
CardDocs(n) == UNION { [1..k -> CardElements(n)] : k \in 0..MaxCards }

\* cover_image_local: None, or str(dest) with dest = base / f"S{season}E{episode}{ext}"
NoPath == [kind |-> "None", season |-> 0, episode |-> 0, ext |-> ""]
LocalPath(season, episode, ext) ==
    [kind |-> "path", season |-> season, episode |-> episode, ext |-> ext]

\* tier 1: articles with an episode link and S#.E# text
Tier1(x) == x.tag = "article" /\ x.ep_link /\ x.se
\* fallback 1: any element whose data-testid contains "episode", with S#.E# text
Tier2(x) == x.testid_episode /\ x.se
\* fallback 2: any article with S#.E# text
Tier3Any(x) == x.tag = "article"
Tier3(x) == x.tag = "article" /\ x.se

\* _find_episode_cards: the cards of the first tier that has any, in document order
_find_episode_cards_of_all_tiers(doc) ==
    SelectSeq(doc, LAMBDA x : Tier1(x) \/ Tier2(x) \/ Tier3(x))
_find_episode_cards(doc) ==
    IF SelectSeq(doc, Tier1) # <<>> THEN SelectSeq(doc, Tier1)
    ELSE IF SelectSeq(doc, Tier2) # <<>> THEN SelectSeq(doc, Tier2)
    ELSE SelectSeq(doc, Tier3)

\* the dataclass Episode; episode_code is kept as the pair of numbers it shows
Episode(episode_code, title, season, episode, air_date, description, rating, cover_image, cover_image_local, imdb_url) ==
    [episode_code |-> episode_code, title |-> title, season |-> season,
     episode |-> episode, air_date |-> air_date, description |-> description,
     rating |-> rating, cover_image |-> cover_image,
     cover_image_local |-> cover_image_local, imdb_url |-> imdb_url]

\* the Episode parse_episodes builds from one card; the texts the card
\* elements do not carry are the ones the finders give when they find nothing
EpisodeOf(card) ==
    Episode(card.code, "", card.code[1], card.code[2], "", "", "N/A",
            card.cover, NoPath, IF card.ep_link THEN "/title/tt2/" ELSE "")

\* `for card in _find_episode_cards(soup): ... yield Episode(...)`
EpisodesReversed(cards) == [k \in 1..Len(cards) |-> EpisodeOf(cards[Len(cards) + 1 - k])]
EpisodesInOrder(cards) == [k \in 1..Len(cards) |-> EpisodeOf(cards[k])]

\* list(parse_episodes(soup))
ParseEpisodes(doc) == EpisodesInOrder(_find_episode_cards(doc))

parse_episodes ==
    /\ p_pc = "idle"
    /\ p_out' = ParseEpisodes(p_doc)
    /\ p_pc' = "returned"
    /\ UNCHANGED p_doc

ParseIdle ==
    /\ p_doc = <<>>
    /\ p_pc = "idle"
    /\ p_out = <<>>

\* the rendered page of season 1 is handed to parse_episodes
ParseInit ==
    /\ p_doc \in CardDocs(1)
    /\ p_pc = "idle"
    /\ p_out = <<>>

(***************************************************************************)
(* The aggregate and the image downloader                                  *)
(*                                                                         *)
(* info.seasons is a dict: here the sequence of its (key, episodes) items  *)
(* in iteration order, with no key twice.                                  *)
(***************************************************************************)
Item(k, eps) == [key |-> k, eps |-> eps]

Keys(d) == [i \in 1..Len(d) |-> d[i].key]

\* d[k] = v: a new key goes to the end, a known key keeps its place
DictSet(d, k, v) ==
    IF \E i \in 1..Len(d) : d[i].key = k
      THEN [i \in 1..Len(d) |-> IF d[i].key = k THEN Item(k, v) ELSE d[i]]
      ELSE Append(d, Item(k, v))

\* d.get(k, [])
DictGet(d, k) ==
    IF \E i \in 1..Len(d) : d[i].key = k
      THEN d[CHOOSE i \in 1..Len(d) : d[i].key = k].eps
      ELSE <<>>

\* dict(sorted(d.items())): the keys are distinct, so the items are ordered by key
DictUnsorted(d) == d
RECURSIVE DictSorted(_)
DictSorted(d) ==
    IF d = <<>> THEN <<>>
    ELSE LET m == CHOOSE i \in 1..Len(d) : \A j \in 1..Len(d) : d[i].key <= d[j].key
         IN  <<d[m]>> \o DictSorted([i \in 1..(Len(d) - 1) |-> IF i < m THEN d[i] ELSE d[i + 1]])

\* SeriesMetadata: title_id, series_name, the optional fields ("None" for
\* None) and the tags
SeriesMetadata(title_id, series_name, optional, tags) ==
    [title_id |-> title_id, series_name |-> series_name,
     type |-> optional, years |-> optional, content_rating |-> optional,
     episode_duration |-> optional, imdb_rating |-> optional,
     rating_count |-> optional, popularity |-> optional, tags |-> tags]

\* SeriesMetadata(title_id=title_id, series_name=title_id)
FallbackMeta == SeriesMetadata("tt1", "tt1", "None", <<>>)

NoInfo == [meta |-> SeriesMetadata("", "", "None", <<>>), seasons |-> <<>>]

\* _ext_from_url: the extension of the URL's path when it is an image
\* extension, ".jpg" otherwise
_ext_from_url(url) == IF url = "b.png" THEN ".png" ELSE ".jpg"

\* `if not url`: None and the empty string
NoUrl(url) == url \in {"None", ""}

\* dest = base / f"S{ep.season}E{ep.episode}{ext}"
DestOfEpisodeFirst(ep) == LocalPath(ep.episode, ep.season, _ext_from_url(ep.cover_image))
DestOf(ep) == LocalPath(ep.season, ep.episode, _ext_from_url(ep.cover_image))

\* download_images, per episode: the new cover_image_local
WithLocalAndNoCover(ep) ==
    [ep EXCEPT !.cover_image_local = IF NoUrl(ep.cover_image) THEN NoPath ELSE DestOf(ep),
               !.cover_image = IF NoUrl(ep.cover_image) THEN "" ELSE @]
WithLocal(ep) ==
    [ep EXCEPT !.cover_image_local = IF NoUrl(ep.cover_image) THEN NoPath ELSE DestOf(ep)]

\* ... and the jobs of one season's episodes, in order
RECURSIVE JobsOfEpisodes(_)
JobsOfEpisodes(eps) ==
    IF eps = <<>> THEN <<>>
    ELSE (IF NoUrl(Head(eps).cover_image) THEN <<>>
          ELSE << [url |-> Head(eps).cover_image, dest |-> DestOf(Head(eps))] >>)
         \o JobsOfEpisodes(Tail(eps))

\* `for season_num, episodes in title_info.seasons.items()`
RECURSIVE JobsOfSeasons(_)
JobsOfSeasons(d) ==
    IF d = <<>> THEN <<>> ELSE JobsOfEpisodes(Head(d).eps) \o JobsOfSeasons(Tail(d))

LocalsSet(d) ==
    [i \in 1..Len(d) |->
        Item(d[i].key, [k \in 1..Len(d[i].eps) |-> WithLocal(d[i].eps[k])])]

\* _download_one(url, dest, session, retries=3)
DownloadRetries == 3

\* the state of a `bounded` task before it has the semaphore
NewDownload == [pc |-> "start", attempt |-> 0, ok |-> FALSE, skipped |-> FALSE]

Downloads == 1..Len(jobs)

\* download_images(title_info, images_dir, pool_size): the local paths are
\* set, the jobs listed, and with no job it returns; otherwise
\* asyncio.run(_download_all(jobs, pool_size)) starts: the semaphore, the
\* session and one `bounded` task per job
DownloadImagesCall(pool) ==
    /\ d_pc = "idle"
    /\ d_pool' = pool
    /\ info' = [info EXCEPT !.seasons = LocalsSet(info.seasons)]
    /\ jobs' = JobsOfSeasons(info.seasons)
    /\ d_task' = [j \in 1..Len(JobsOfSeasons(info.seasons)) |-> NewDownload]
    /\ IF JobsOfSeasons(info.seasons) = <<>>
         THEN d_pc' = "returned" /\ d_sem' = 0
         ELSE d_pc' = "gather" /\ d_sem' = pool
    /\ UNCHANGED files

\* `async with sem` of bounded
DownloadCanAcquireAlways(counter) == counter >= 0
DownloadCanAcquire(counter) == counter > 0

\* `if dest.exists(): return True`
SkipsNever(dest, existing) == FALSE
Skips(dest, existing) == dest \in existing

\* `for attempt in range(1, retries + 1)` ... `if attempt < retries`
DownloadTriesAgainAlways(attempt, retries) == attempt <= retries
DownloadTriesAgain(attempt, retries) == attempt < retries

\* bounded(url, dest) gets the semaphore and _download_one starts: an existing
\* destination is reported as success at once (the semaphore is given back
\* in the same step), otherwise the first GET is issued
bounded(j) ==
    /\ d_pc = "gather"
    /\ d_task[j].pc = "start"
    /\ DownloadCanAcquire(d_sem)
    /\ IF Skips(jobs[j].dest, files)
         THEN /\ d_task' = [d_task EXCEPT ![j] = [pc |-> "done", attempt |-> 0,
                                                  ok |-> TRUE, skipped |-> TRUE]]
              /\ UNCHANGED d_sem
         ELSE /\ d_task' = [d_task EXCEPT ![j].pc = "get", ![j].attempt = 1]
              /\ d_sem' = d_sem - 1
    /\ UNCHANGED <<d_pool, jobs, d_pc, files, info>>

\* the GET of an attempt ends.  "ok": raise_for_status, mkdir and write_bytes
\* went through, the file is there and _download_one returns True.  "fail":
\* one of them raised; the backoff sleep and the next GET, or False after the
\* last attempt.
_download_one(j, o) ==
    /\ d_task[j].pc = "get"
    /\ IF o = "ok"
         THEN /\ files' = files \cup {jobs[j].dest}
              /\ d_task' = [d_task EXCEPT ![j].pc = "done", ![j].ok = TRUE]
              /\ d_sem' = Release(d_sem)
         ELSE IF DownloadTriesAgain(d_task[j].attempt, DownloadRetries)
           THEN /\ d_task' = [d_task EXCEPT ![j].attempt = @ + 1]
                /\ UNCHANGED <<d_sem, files>>
           ELSE /\ d_task' = [d_task EXCEPT ![j].pc = "done", ![j].ok = FALSE]
                /\ d_sem' = Release(d_sem)
                /\ UNCHANGED files
    /\ UNCHANGED <<d_pool, jobs, d_pc, info>>

\* gather returned: _download_all and asyncio.run return, download_images
\* counts the saved files and returns
_download_all_return ==
    /\ d_pc = "gather"
    /\ \A j \in Downloads : d_task[j].pc = "done"
    /\ d_pc' = "returned"
    /\ UNCHANGED <<d_pool, jobs, d_sem, d_task, files, info>>

\* download_images is called on an aggregate
download_images ==
    /\ r_pc = "idle"
    /\ images_dir # "None"
    /\ DownloadImagesCall(d_pool)
    /\ UNCHANGED <<r_pc, r_i, r_docs, images_dir>>

\* The aggregates download_images is tried on: one or two seasons with at
\* most MaxEps episodes in all, drawn from an episode whose code did not
\* parse, one with a cover and one without; two episodes of a list may be
\* alike.
MaxEps == 3

Ep(s, e, cover) == Episode(<<s, e>>, "", s, e, "", "", "N/A", cover, NoPath, "")

EpisodeSamples(k) == { Ep(0, 0, "a.jpg"), Ep(k, 1, "a.jpg"), Ep(k, 1, "None") }

EpisodeLists(k, n) == UNION { [1..m -> EpisodeSamples(k)] : m \in 0..n }

SeasonDicts ==
    {<<>>}
    \cup { <<Item(1, a)>> : a \in EpisodeLists(1, MaxEps) }
    \cup UNION { { <<Item(1, a), Item(2, b)>> : b \in EpisodeLists(2, MaxEps - Len(a)) } :
                 a \in EpisodeLists(1, MaxEps) }

TitleInfos == { [meta |-> FallbackMeta, seasons |-> d] : d \in SeasonDicts }

\* files a previous run may have left in the directory
LeftOver == { LocalPath(0, 0, ".jpg"), LocalPath(1, 1, ".jpg") }

DownloadInit ==
    /\ info \in TitleInfos
    /\ images_dir = "images"
    /\ d_pool \in 1..MaxPool
    /\ files \in SUBSET LeftOver
    /\ jobs = <<>>
    /\ d_pc = "idle"
    /\ d_sem = 0
    /\ d_task = <<>>
    /\ r_pc = "idle"
    /\ r_i = 0
    /\ r_docs = <<>>

DownloadIdle ==
    /\ d_pool = 0
    /\ jobs = <<>>
    /\ d_pc = "idle"
    /\ d_sem = 0
    /\ d_task = <<>>
    /\ files = {}

(***************************************************************************)
(* iter_seasons and the rest of scrape                                     *)
(*                                                                         *)
(* scrape has chosen its target and calls iter_seasons with it             *)
(* (season_nums is the target): layer 2 renders the seasons, the results   *)
(* are parsed and assembled, layer 3 downloads the cover images.           *)
(***************************************************************************)
\* the articles of a rendered season page: one that is no episode card, and
\* episode cards with their code and cover
Promo ==
    [tag |-> "article", testid_episode |-> FALSE, ep_link |-> FALSE, se |-> FALSE,
     code |-> <<0, 0>>, cover |-> "None"]
Card(n, e, cover) ==
    [tag |-> "article", testid_episode |-> FALSE, ep_link |-> TRUE, se |-> TRUE,
     code |-> <<n, e>>, cover |-> cover]
TitleCards(n) == { Promo, Card(n, 1, "a.jpg"), Card(n, 2, "a.jpg"), Card(n, 2, "None") }

\* the documents page.content() can give for a page that shows `cards` articles
TitleDocs(n, cards) == [1..cards -> TitleCards(n)]

\* asyncio.run is over: of a task only how it ended is left, its locals are gone
Gone(t) == [NewTask EXCEPT !.pc = t.pc]

\* `if soup is None: ... continue`
IsNoneNever(entry) == FALSE
IsNone(entry) == entry.kind = "None"

\* iter_seasons: asyncio.run(fetch_seasons_async(...)) has returned the results
asyncio_run_returns ==
    /\ r_pc = "render"
    /\ m_pc = "returned"
    /\ r_pc' = "iter"
    /\ r_i' = 0
    /\ r_docs' = <<>>
    /\ task' = [i \in Tasks |-> Gone(task[i])]
    /\ UNCHANGED <<info, images_dir>>
    /\ UNCHANGED <<season_nums, pool_size, site, sem, m_pc, browser, results>>

\* fetch_seasons_async raised: asyncio.run has cancelled what was pending and
\* raises, and nothing in iter_seasons or scrape catches it
asyncio_run_raises ==
    /\ r_pc = "render"
    /\ m_pc = "raised"
    /\ \A i \in Tasks : Ended(task[i])
    /\ r_pc' = "raised"
    /\ task' = [i \in Tasks |-> Gone(task[i])]
    /\ UNCHANGED <<r_i, r_docs, info, images_dir>>
    /\ UNCHANGED <<season_nums, pool_size, site, sem, m_pc, browser, results>>

\* one round of `for season_num, soup in results` in iter_seasons, and for a
\* soup the round of scrape's loop that takes the yielded pair:
\* info.seasons[season_num] = list(parse_episodes(soup))
iter_seasons_next ==
    /\ r_pc = "iter"
    /\ r_i < Len(results)
    /\ r_i' = r_i + 1
    /\ LET entry == results[r_i + 1]
       IN  IF IsNone(entry)
             THEN /\ r_docs' = Append(r_docs, <<>>)
                  /\ UNCHANGED info
             ELSE \E doc \in TitleDocs(entry.season, entry.cards) :
                    /\ r_docs' = Append(r_docs, doc)
                    /\ info' = [info EXCEPT
                                  !.seasons = DictSet(@, entry.season, ParseEpisodes(doc))]
    /\ UNCHANGED <<r_pc, images_dir>>

\* the generator is exhausted: info.seasons = dict(sorted(info.seasons.items()))
scrape_sort ==
    /\ r_pc = "iter"
    /\ r_i = Len(results)
    /\ info' = [info EXCEPT !.seasons = DictSorted(@)]
    /\ r_pc' = "assembled"
    /\ UNCHANGED <<r_i, r_docs, images_dir>>

\* `if images_dir is not None: download_images(info, images_dir, pool_size=pool_size * 2)`
scrape_download ==
    /\ r_pc = "assembled"
    /\ images_dir # "None"
    /\ DownloadImagesCall(pool_size * 2)
    /\ r_pc' = "download"
    /\ UNCHANGED <<r_i, r_docs, images_dir>>

\* `return info`
scrape_return ==
    /\ \/ r_pc = "assembled" /\ images_dir = "None"
       \/ r_pc = "download" /\ d_pc = "returned"
    /\ r_pc' = "returned"
    /\ UNCHANGED <<r_i, r_docs, info, images_dir>>

TitleIdle ==
    /\ r_pc = "idle"
    /\ r_i = 0
    /\ r_docs = <<>>
    /\ info = NoInfo
    /\ images_dir = "None"

\* what scrape's selection can hand over: ascending, no season twice
Targets == { <<>>, <<1>>, <<1, 2>> }

\* `info = TitleInfo(meta=meta)`, and fetch_seasons_async has launched the
\* browser and created the tasks
TitleInit ==
    /\ season_nums \in Targets
    /\ site \in [Range(season_nums) -> {PlainSite, BusySite}]
    /\ PoolStarted
    /\ r_pc = "render"
    /\ r_i = 0
    /\ r_docs = <<>>
    /\ info = [meta |-> FallbackMeta, seasons |-> <<>>]
    /\ images_dir \in {"None", "images"}

(***************************************************************************)
(* TitleInfo: get_episode, to_dict, save, and load                         *)
(***************************************************************************)
NoEpisode == Episode(<<0, 0>>, "None", 0, 0, "None", "None", "None", "None", NoPath, "None")

\* `for ep in self.seasons.get(season, []): if ep.episode == episode: return ep`
GetEpisode(t, season, episode) ==
    LET hits == SelectSeq(DictGet(t.seasons, season), LAMBDA ep : ep.episode = episode)
    IN  IF hits = <<>> THEN NoEpisode ELSE Head(hits)

get_episode(season, episode) ==
    /\ q_pc = "idle"
    /\ q_args' = <<season, episode>>
    /\ q_out' = GetEpisode(info, season, episode)
    /\ q_pc' = "returned"
    /\ UNCHANGED <<io_pc, disk, loaded>>

\* str(k) of a season key: its decimal digits
RECURSIVE str(_)
str(k) == IF k < 10 THEN <<k>> ELSE str(k \div 10) \o <<k % 10>>

\* int(season_key)
RECURSIVE int(_)
intLastDigit(digits) == digits[Len(digits)]
int(digits) ==
    IF Len(digits) = 1 THEN digits[1]
    ELSE 10 * int(SubSeq(digits, 1, Len(digits) - 1)) + digits[Len(digits)]

\* json.dumps and json.loads of a value that may be None
Dumps(v) == IF v = "None" THEN "null" ELSE v
Loads(v) == IF v = "null" THEN "None" ELSE v
DumpsPath(p) == IF p.kind = "None" THEN [p EXCEPT !.kind = "null"] ELSE p
LoadsPath(p) == IF p.kind = "null" THEN [p EXCEPT !.kind = "None"] ELSE p

\* Episode.to_dict (asdict) as written to the file
EpisodeJson(ep) ==
    [episode_code |-> ep.episode_code, title |-> ep.title, season |-> ep.season,
     episode |-> ep.episode, air_date |-> ep.air_date,
     description |-> ep.description, rating |-> ep.rating,
     cover_image |-> Dumps(ep.cover_image),
     cover_image_local |-> DumpsPath(ep.cover_image_local),
     imdb_url |-> ep.imdb_url]

\* TitleInfo.to_dict as written to the file: the metadata's fields, then
\* "seasons" with the keys as strings
ToJson(t) ==
    [title_id |-> t.meta.title_id, series_name |-> t.meta.series_name,
     type |-> Dumps(t.meta.type), years |-> Dumps(t.meta.years),
     content_rating |-> Dumps(t.meta.content_rating),
     episode_duration |-> Dumps(t.meta.episode_duration),
     imdb_rating |-> Dumps(t.meta.imdb_rating),
     rating_count |-> Dumps(t.meta.rating_count),
     popularity |-> Dumps(t.meta.popularity), tags |-> t.meta.tags,
     seasons |-> [i \in 1..Len(t.seasons) |->
                    [key |-> str(t.seasons[i].key),
                     eps |-> [k \in 1..Len(t.seasons[i].eps) |->
                                EpisodeJson(t.seasons[i].eps[k])]]]]

\* d.get(key, default)
Get(d, key, default) == IF key \in DOMAIN d THEN d[key] ELSE default

\* the Episode(...) load builds from one entry
EpisodeFromJson(ep) ==
    Episode(Get(ep, "episode_code", <<0, 0>>), Get(ep, "title", ""),
            Get(ep, "season", 0), Get(ep, "episode", 0),
            Get(ep, "air_date", ""), Get(ep, "description", ""),
            Get(ep, "rating", "N/A"),
            Loads(Get(ep, "cover_image", "null")),
            LoadsPath(Get(ep, "cover_image_local", DumpsPath(NoPath))),
            Get(ep, "imdb_url", ""))

\* `for season_key, eps in data.get("seasons", {}).items(): seasons[int(season_key)] = [...]`
RECURSIVE SeasonsFromJson(_)
SeasonsFromJson(items) ==
    IF items = <<>> THEN <<>>
    ELSE LET last == items[Len(items)]
         IN  DictSet(SeasonsFromJson(SubSeq(items, 1, Len(items) - 1)),
                     int(last.key),
                     [k \in 1..Len(last.eps) |-> EpisodeFromJson(last.eps[k])])

\* load(path), from the parsed document on
FromJson(data) ==
    [meta |-> [title_id |-> Get(data, "title_id", ""),
               series_name |-> Get(data, "series_name", ""),
               type |-> Loads(Get(data, "type", "null")),
               years |-> Loads(Get(data, "years", "null")),
               content_rating |-> Loads(Get(data, "content_rating", "null")),
               episode_duration |-> Loads(Get(data, "episode_duration", "null")),
               imdb_rating |-> Loads(Get(data, "imdb_rating", "null")),
               rating_count |-> Loads(Get(data, "rating_count", "null")),
               popularity |-> Loads(Get(data, "popularity", "null")),
               tags |-> Get(data, "tags", <<>>)],
     seasons |-> SeasonsFromJson(Get(data, "seasons", <<>>))]

NoFile == [title_id |-> "no file"]

\* info.save(path)
save ==
    /\ io_pc = "idle"
    /\ disk' = ToJson(info)
    /\ io_pc' = "saved"
    /\ UNCHANGED <<q_pc, q_args, q_out, loaded>>

\* load(path) of the file save wrote
load ==
    /\ io_pc = "saved"
    /\ loaded' = FromJson(disk)
    /\ io_pc' = "loaded"
    /\ UNCHANGED <<q_pc, q_args, q_out, disk>>

ApiIdle ==
    /\ q_pc = "idle"
    /\ q_args = <<0, 0>>
    /\ q_out = NoEpisode
    /\ io_pc = "idle"
    /\ disk = NoFile
    /\ loaded = NoInfo

\* The aggregates the three are tried on: the metadata with nothing or with
\* everything found; no season, season 1, or seasons 2 and 10 (in this
\* order); the episodes of the downloader's samples and one with every field
\* filled in, at most MaxEps in all.
FullMeta ==
    [title_id |-> "tt1", series_name |-> "Show", type |-> "TV Series",
     years |-> "2017", content_rating |-> "TV-PG", episode_duration |-> "24m",
     imdb_rating |-> "8.2/10", rating_count |-> "47K", popularity |-> "529",
     tags |-> <<"Anime", "Action">>]

FullEpisode(k) ==
    Episode(<<k, 2>>, "Pilot", k, 2, "Mon, Jan 1, 2024", "The first episode.",
            "9.0/10 (5K)", "b.png", LocalPath(k, 2, ".png"), "/title/tt2/")

ApiEpisodes(k) == EpisodeSamples(k) \cup { FullEpisode(k) }

ApiLists(k, n) == UNION { [1..m -> ApiEpisodes(k)] : m \in 0..n }

ApiDicts ==
    {<<>>}
    \cup { <<Item(1, a)>> : a \in ApiLists(1, MaxEps) }
    \cup UNION { { <<Item(2, a), Item(10, b)>> : b \in ApiLists(10, MaxEps - Len(a)) } :
                 a \in ApiLists(2, MaxEps) }

ApiInfos == { [meta |-> m, seasons |-> d] : m \in {FallbackMeta, FullMeta}, d \in ApiDicts }

\* the arguments get_episode is called with
ApiSeasons == {1, 2, 3, 10}
ApiNumbers == {0, 1, 2}

ApiInit ==
    /\ info \in ApiInfos
    /\ r_pc = "idle"
    /\ r_i = 0
    /\ r_docs = <<>>
    /\ images_dir = "None"
    /\ q_pc = "idle"
    /\ q_args = <<0, 0>>
    /\ q_out = NoEpisode
    /\ io_pc = "idle"
    /\ disk = NoFile
    /\ loaded = NoInfo

(***************************************************************************)
(* _best_image                                                             *)
(*                                                                         *)
(* A srcset is a string, kept as the sequence of its pieces: "Ua", "Ub",   *)
(* "Uc" are the start of an absolute URL (https://...), "x" is more URL    *)
(* text, "," a comma, " " white space, and "320w", "640w", "1000w" width   *)
(* descriptors.                                                            *)
(***************************************************************************)
IsScheme(a) == a \in {"Ua", "Ub", "Uc"}
IsSpace(a) == a = " "

\* s.strip(), s.rstrip()
RECURSIVE StripLeft(_)
StripLeft(s) == IF s # <<>> /\ IsSpace(Head(s)) THEN StripLeft(Tail(s)) ELSE s
RECURSIVE StripRight(_)
StripRight(s) ==
    IF s # <<>> /\ IsSpace(s[Len(s)]) THEN StripRight(SubSeq(s, 1, Len(s) - 1)) ELSE s
StripBoth(s) == StripLeft(StripRight(s))

\* how many white-space pieces follow position i
RECURSIVE SpacesAfter(_, _)
SpacesAfter(s, i) ==
    IF i < Len(s) /\ IsSpace(s[i + 1]) THEN 1 + SpacesAfter(s, i + 1) ELSE 0

\* the pattern ,\s+(?=https?://) matches at position i
SplitsAtAnyComma(s, i) == s[i] = ","
SplitsAt(s, i) ==
    /\ s[i] = ","
    /\ SpacesAfter(s, i) >= 1
    /\ i + SpacesAfter(s, i) < Len(s)
    /\ IsScheme(s[i + SpacesAfter(s, i) + 1])

\* re.split(r",\s+(?=https?://)", s)
RECURSIVE SplitEntries(_)
SplitEntries(s) ==
    IF \E i \in 1..Len(s) : SplitsAt(s, i)
      THEN LET i == Min({ j \in 1..Len(s) : SplitsAt(s, j) })
           IN  <<SubSeq(s, 1, i - 1)>>
                 \o SplitEntries(SubSeq(s, i + SpacesAfter(s, i) + 1, Len(s)))
      ELSE <<s>>

\* entry.rsplit(None, 1)
RSplit(entry) ==
    LET e == StripRight(entry)
        spaces == { i \in 1..Len(e) : IsSpace(e[i]) }
    IN  IF e = <<>> THEN <<>>
        ELSE IF spaces = {} THEN <<e>>
        ELSE LET i == CHOOSE k \in spaces : \A j \in spaces : j <= k
             IN  IF StripRight(SubSeq(e, 1, i - 1)) = <<>>
                   THEN <<SubSeq(e, i + 1, Len(e))>>
                   ELSE << StripRight(SubSeq(e, 1, i - 1)), SubSeq(e, i + 1, Len(e)) >>

\* re.sub(r"[^\d]", "", descriptor): the digits of each piece
DigitsOfPiece(a) ==
    IF a = "320w" THEN <<3, 2, 0>>
    ELSE IF a = "640w" THEN <<6, 4, 0>>
    ELSE IF a = "1000w" THEN <<1, 0, 0, 0>>
    ELSE <<>>
RECURSIVE DigitsOf(_)
DigitsOf(s) == IF s = <<>> THEN <<>> ELSE DigitsOfPiece(Head(s)) \o DigitsOf(Tail(s))

\* the (width, url) candidates; int("") raises ValueError and the entry is passed over
RECURSIVE Candidates(_)
Candidates(entries) ==
    IF entries = <<>> THEN <<>>
    ELSE LET tokens == RSplit(Head(entries))
         IN  (IF Len(tokens) = 2 /\ DigitsOf(tokens[2]) # <<>>
                THEN << [width |-> int(DigitsOf(tokens[2])), url |-> StripBoth(tokens[1])] >>
                ELSE <<>>)
             \o Candidates(Tail(entries))

\* the order of Python strings, on the first piece where two URLs differ
PieceRank(a) ==
    CHOOSE n \in 1..9 : a = <<" ", ",", "1000w", "320w", "640w", "Ua", "Ub", "Uc", "x">>[n]
RECURSIVE TextLess(_, _)
TextLess(u, v) ==
    IF u = <<>> THEN v # <<>>
    ELSE IF v = <<>> THEN FALSE
    ELSE IF Head(u) = Head(v) THEN TextLess(Tail(u), Tail(v))
    ELSE PieceRank(Head(u)) < PieceRank(Head(v))

\* the order of the (width, url) tuples
TupleLess(c, d) == c.width < d.width \/ (c.width = d.width /\ TextLess(c.url, d.url))

\* max(candidates)[1]
MaxCandidate(cands) ==
    LET best == CHOOSE i \in 1..Len(cands) :
                    \A j \in 1..Len(cands) : ~TupleLess(cands[i], cands[j])
    IN  cands[best].url

NoUrlText == <<"None">>

\* _best_image(img) for the srcset text and the src of the <img>
BestImage(srcset, src) ==
    IF srcset # <<>> /\ Candidates(SplitEntries(StripBoth(srcset))) # <<>>
      THEN MaxCandidate(Candidates(SplitEntries(StripBoth(srcset))))
      ELSE src

\* the srcset attribute as written from the entries: url, white space and
\* descriptor when there is one, the entries joined by the separator
EntryText(e) == IF e.desc = "" THEN e.url ELSE e.url \o <<" ", e.desc>>
RECURSIVE Join(_, _)
Join(entries, sep) ==
    IF entries = <<>> THEN <<>>
    ELSE IF Len(entries) = 1 THEN EntryText(entries[1])
    ELSE EntryText(Head(entries)) \o sep \o Join(Tail(entries), sep)

_best_image ==
    /\ b_pc = "idle"
    /\ b_out' = BestImage(Join(b_img.entries, b_img.sep), b_img.src)
    /\ b_pc' = "returned"
    /\ UNCHANGED b_img

NoImage == [entries |-> <<>>, sep |-> <<",", " ">>, src |-> NoUrlText]

ImageIdle ==
    /\ b_img = NoImage
    /\ b_pc = "idle"
    /\ b_out = NoUrlText

\* The <img> elements it is tried on: at most MaxSrc entries, each a URL
\* (one of them with commas inside) with a width descriptor or none, joined
\* by a comma and one or two spaces, or by a bare comma.
MaxSrc == 3
ImageUrls == { <<"Ua">>, <<"Ub">>, <<"Uc", ",", "x", ",", "x">> }
Descriptors == {"", "320w", "640w", "1000w"}
Separators == { <<",", " ">>, <<",", " ", " ">>, <<",">> }

Images ==
    { [entries |-> es, sep |-> sep, src |-> src] :
        es \in UNION { [1..n -> [url : ImageUrls, desc : Descriptors]] : n \in 0..MaxSrc },
        sep \in Separators,
        src \in {NoUrlText, <<"Ub">>} }

ImageInit ==
    /\ b_img \in Images
    /\ b_pc = "idle"
    /\ b_out = NoUrlText

(***************************************************************************)
(* parse_series_metadata: the series name and the vote count               *)
(*                                                                         *)
(* The title page holds, each present or "absent": the text of the         *)
(* hero__pageTitle element, the text of <title>, the content of the        *)
(* og:title meta tag, and the text of the aggregate-rating block.  Texts   *)
(* are sequences of words, "" being no text at all.  In a title "(2017)"   *)
(* is a parenthesis that starts with four digits, "(TV)" any other one,    *)
(* "-IMDBx" the site's suffix.  In the rating block "/10" is a slash and a *)
(* ten, "8.2" and "47K" are runs of [\d.,KkMm], "votes" is any other word. *)
(* The fields the other claims do not read stay None.                      *)
(***************************************************************************)
Absent == <<"absent">>

\* re.sub(r"\s*-\s*IMDBx\s*$", "", text, flags=re.I)
DropSuffix(text) ==
    IF text # <<>> /\ text[Len(text)] = "-IMDBx" THEN SubSeq(text, 1, Len(text) - 1) ELSE text

\* re.sub(r"\s*\(\d{4}.*?\)\s*$", "", raw).strip(): from the leftmost
\* parenthesis with a year on, when the text ends with a closing parenthesis
DropYear(raw) ==
    LET years == { i \in 1..Len(raw) : raw[i] = "(2017)" }
    IN  IF raw # <<>> /\ raw[Len(raw)] \in {"(2017)", "(TV)"} /\ years # {}
          THEN SubSeq(raw, 1, Min(years) - 1)
          ELSE raw

\* the `if node: ... else: ... else: ...` of the series name
SeriesNameByPresence(soup, title_id) ==
    IF soup.hero # Absent
      THEN IF soup.hero # <<>> THEN soup.hero ELSE title_id
    ELSE IF soup.title # Absent
      THEN IF DropYear(DropSuffix(soup.title)) # <<>>
             THEN DropYear(DropSuffix(soup.title)) ELSE title_id
    ELSE IF soup.og # Absent /\ soup.og # <<>>
      THEN SelectSeq(soup.og, LAMBDA w : w # " ")
    ELSE title_id

\* a /\s*10\s+([\d.,KkMm]+) match starts at word i
IsCount(w) == w \in {"8.2", "47K", "10"}
MatchAt(text, i) == i < Len(text) /\ text[i] = "/10" /\ IsCount(text[i + 1])

\* re.findall: the captures of the matches, left to right, without overlap
RECURSIVE FindAllFrom(_, _)
FindAllFrom(text, i) ==
    IF i > Len(text) THEN <<>>
    ELSE IF MatchAt(text, i) THEN <<text[i + 1]>> \o FindAllFrom(text, i + 2)
    ELSE FindAllFrom(text, i + 1)

\* all_matches[-1]
PickFirst(matches) == matches[1]
PickLast(matches) == matches[Len(matches)]

RatingCount(soup) ==
    IF soup.agg = Absent \/ FindAllFrom(soup.agg, 1) = <<>>
      THEN "None"
      ELSE PickLast(FindAllFrom(soup.agg, 1))

TitleId == <<"tt1">>

parse_series_metadata ==
    /\ g_pc = "idle"
    /\ g_meta' = [SeriesMetadata(TitleId, SeriesNameByPresence(g_soup, TitleId), "None", <<>>)
                    EXCEPT !.rating_count = RatingCount(g_soup)]
    /\ g_pc' = "returned"
    /\ UNCHANGED g_soup

NoPage == [hero |-> Absent, title |-> Absent, og |-> Absent, agg |-> Absent]

MetaIdle ==
    /\ g_soup = NoPage
    /\ g_pc = "idle"
    /\ g_meta = SeriesMetadata(TitleId, TitleId, "None", <<>>)

\* the title pages it is tried on
MaxWords == 4
HeroTexts == { Absent, <<>>, <<"Show">> }
TitleTexts ==
    { Absent, <<>>, <<"-IMDBx">>, <<"(2017)", "-IMDBx">>, <<"Name">>,
      <<"Name", "(2017)", "-IMDBx">>, <<"Name", "(2017)", "Cut", "(TV)">> }
OgTexts == { Absent, <<>>, <<" ">>, <<"Title">> }
RatingWords == {"/10", "8.2", "47K", "votes"}
AggTexts == {Absent} \cup UNION { [1..n -> RatingWords] : n \in 0..MaxWords }

MetaInit ==
    /\ g_soup \in [hero : HeroTexts, title : TitleTexts, og : OgTexts, agg : AggTexts]
    /\ g_pc = "idle"
    /\ g_meta = SeriesMetadata(TitleId, TitleId, "None", <<>>)

(***************************************************************************)
(* parse_episodes on one card: the finders                                 *)
(*                                                                         *)
(* Of a card the model keeps what the finders of these fields read:        *)
(*   title   the title text _find_title_text gives, as its words           *)
(*   rating  the rating groups, the rating span and the words of the       *)
(*           card's text that the rating patterns look at                  *)
(*   imgs    the <img> elements, in document order                         *)
(*   desc    the blocks _find_description looks at                         *)
(* White space is the boundary between two words, so stripping it and the  *)
(* \s* around a separator change nothing in a sequence of words.  The air  *)
(* date and the link are not read in this part: they stay empty.           *)
(***************************************************************************)

\* the words of a title text: codes, separators, other words
CodeWords == {"S1.E2", "S01.E02", "s2.e1"}
\* "bullet" is U+2219, "middot" is U+00B7
Bullets == {"bullet", "middot"}
TitleWords == CodeWords \cup Bullets \cup {"Pilot", "Ep"}

\* re.split(r"\s*[\u2219\u00b7]\s*", raw, maxsplit=1), the class written with its code points
SplitAtLast(raw) ==
    LET seps == { i \in 1..Len(raw) : raw[i] \in Bullets }
    IN  IF seps = {} THEN <<raw>>
        ELSE LET i == CHOOSE x \in seps : \A y \in seps : y <= x
             IN  <<SubSeq(raw, 1, i - 1), SubSeq(raw, i + 1, Len(raw))>>
SplitAtFirst(raw) ==
    LET seps == { i \in 1..Len(raw) : raw[i] \in Bullets }
    IN  IF seps = {} THEN <<raw>>
        ELSE <<SubSeq(raw, 1, Min(seps) - 1), SubSeq(raw, Min(seps) + 1, Len(raw))>>

\* re.match(r"S(\d+)\.E(\d+)", episode_code, re.I) and int() of its groups:
\* the pattern is looked for at the start only; <<0, 0>> stands for no match
\* and gives the same numbers as the `else 0` of the code
MatchSE(code) ==
    IF code = <<>> THEN <<0, 0>>
    ELSE IF Head(code) \in {"S1.E2", "S01.E02"} THEN <<1, 2>>
    ELSE IF Head(code) = "s2.e1" THEN <<2, 1>>
    ELSE <<0, 0>>

\* episode_code, ep_title, season_num, episode_num of parse_episodes
CodeOf(raw) == SplitAtFirst(raw)[1]
TitleOf(raw) == IF Len(SplitAtFirst(raw)) > 1 THEN SplitAtFirst(raw)[2] ELSE raw

\* ---- _find_rating ----
\* A rating group or span is there or not; `label` is the number
\* ([\d.]+) found in its aria-label, "" when the label has none.  The words
\* of a text: "8.5/10" is what \b(\d\.\d)\s*/\s*10\b matches, "(2)" and
\* "(12K)" are what \(\s*([\d.,KkMm]+)\s*\) matches, "w" is any other word.
NoNode == [present |-> FALSE, label |-> "", text |-> <<>>]
Node(label, text) == [present |-> TRUE, label |-> label, text |-> text]

IsGroup(w) == w \in {"(2)", "(12K)"}
Inner(w) == IF w = "(2)" THEN "2" ELSE "12K"
IsScore(w) == w = "8.5/10"
ScoreIn(w) == "8.5"

\* re.search(r"\(\s*([\d.,KkMm]+)\s*\)", text): the first group of the text
\* from word `from` on, or ""
GroupFrom(text, from) ==
    LET at == { i \in from..Len(text) : IsGroup(text[i]) }
    IN  IF at = {} THEN "" ELSE Inner(text[Min(at)])

\* vm = re.search(..., full): the search starts at the beginning of the text
Votes(text, score_at) == GroupFrom(text, 1)

\* f"{score}/10 ({votes})" if votes else f"{score}/10", as words
Format(score, votes) ==
    IF votes = "" THEN <<score \o "/10">> ELSE <<score \o "/10", "(" \o votes \o ")">>

\* one round of `for testid in (...)`: 0 words when the round returns nothing
GroupRating(node) ==
    IF node.present /\ node.label # ""
      THEN Format(node.label, Votes(node.text, 0))
      ELSE <<>>

FindRating(r) ==
    IF GroupRating(r.imdb_rating) # <<>> THEN GroupRating(r.imdb_rating)
    ELSE IF GroupRating(r.container) # <<>> THEN GroupRating(r.container)
    ELSE IF r.span.present /\ r.span.label # "" THEN Format(r.span.label, "")
    ELSE LET at == { i \in 1..Len(r.text) : IsScore(r.text[i]) }
         IN  IF at # {} THEN Format(ScoreIn(r.text[Min(at)]), Votes(r.text, Min(at)))
             ELSE <<"N/A">>

\* ---- _find_cover_image ----
\* An <img> has a srcset text and a src (NoUrlText when the attribute is
\* missing, as for _best_image) and a width attribute: "absent", a number,
\* or "auto", for which int() raises ValueError.  "Ucdn" is a URL on
\* media-amazon.com, "Usvg" one that ends in .svg, "Uicon" one with "icon" in
\* it, "Ua" and "Ub" are other URLs.
Pieces(text) == { text[i] : i \in 1..Len(text) }

\* "media-amazon.com" in img.get("srcset", "") + img.get("src", "")
OnCdn(img) == "Ucdn" \in Pieces(img.srcset) \cup Pieces(img.src)

\* int(img.get("width", 0)) >= 80, False when int() raises
WidthInt(w) == IF w = "absent" THEN 0 ELSE IF w = "79" THEN 79 ELSE 80
WideEnough(img) ==
    IF img.width = "auto" THEN FALSE ELSE WidthInt(img.width) >= 80

\* src and not src.endswith(".svg") and "icon" not in src.lower()
PlainSrc(img) == img.src # NoUrlText /\ img.src # <<>> /\ img.src \notin {<<"Usvg">>, <<"Uicon">>}

\* the second loop: one pass, each image tested for its width and then for its src
SecondLoop(imgs) ==
    LET passing == { i \in 1..Len(imgs) : WideEnough(imgs[i]) \/ PlainSrc(imgs[i]) }
    IN  IF passing = {} THEN 0 ELSE Min(passing)

\* the <img> _find_cover_image passes to _best_image (its position), 0 for None
CoverImageAt(imgs) ==
    LET cdn == { i \in 1..Len(imgs) : OnCdn(imgs[i]) }
    IN  IF cdn # {} THEN Min(cdn) ELSE SecondLoop(imgs)

FindCoverImage(imgs) ==
    IF CoverImageAt(imgs) = 0 THEN NoUrlText
    ELSE BestImage(imgs[CoverImageAt(imgs)].srcset, imgs[CoverImageAt(imgs)].src)

\* ---- _find_description ----
\* The marker element (data-testid with plot, synopsis, description or
\* html-content) is there or not.  A block is a <div> or <p>; of it the
\* model keeps whether it is a <div role="presentation">, whether it is a
\* leaf (no <div> or <p> inside) and its text.  The texts are named by
\* their length: "t30" has 30 characters; "code50" contains S1.E1 and
\* "date50" has a year in its first 15 characters.
TextLen(t) ==
    IF t = "" THEN 0 ELSE IF t = "t10" THEN 10 ELSE IF t = "t30" THEN 30
    ELSE IF t = "t40" THEN 40 ELSE IF t = "t90" THEN 90 ELSE 50

\* len(text) > 30
LongEnough(t) == TextLen(t) > 30

\* max(candidates, key=len): the first of the longest
LongestOf(blocks, at) ==
    blocks[CHOOSE i \in at : \A j \in at :
               \/ TextLen(blocks[j].text) < TextLen(blocks[i].text)
               \/ TextLen(blocks[j].text) = TextLen(blocks[i].text) /\ i <= j].text

\* `for div in card.find_all("div", role="presentation"): if len(text) > 30: return text`
PresentationText(blocks) ==
    LET at == { i \in 1..Len(blocks) : blocks[i].presentation /\ LongEnough(blocks[i].text) }
    IN  IF at = {} THEN "" ELSE blocks[Min(at)].text

\* the leaf blocks that qualify
LeafText(blocks) ==
    LET at == { i \in 1..Len(blocks) :
                  /\ blocks[i].leaf
                  /\ LongEnough(blocks[i].text)
                  /\ blocks[i].text \notin {"code50", "date50"} }
    IN  IF at = {} THEN "" ELSE LongestOf(blocks, at)

FindDescription(d) ==
    IF d.marker.present THEN d.marker.text
    ELSE IF PresentationText(d.blocks) # "" THEN PresentationText(d.blocks)
    ELSE LeafText(d.blocks)

\* ---- parse_episodes, for one card ----
NoRating == [imdb_rating |-> NoNode, container |-> NoNode, span |-> NoNode, text |-> <<>>]
NoDesc == [marker |-> [present |-> FALSE, text |-> ""], blocks |-> <<>>]
BlankCard == [title |-> <<>>, rating |-> NoRating, imgs |-> <<>>, desc |-> NoDesc]

EpisodeOfCard(card) ==
    Episode(CodeOf(card.title), TitleOf(card.title),
            MatchSE(CodeOf(card.title))[1], MatchSE(CodeOf(card.title))[2],
            "", FindDescription(card.desc), FindRating(card.rating),
            FindCoverImage(card.imgs), NoPath, "")

\* one round of `for card in _find_episode_cards(soup)`
parse_episodes_card ==
    /\ c_pc = "idle"
    /\ c_ep' = EpisodeOfCard(c_card)
    /\ c_pc' = "returned"
    /\ UNCHANGED c_card

CardIdle ==
    /\ c_card = BlankCard
    /\ c_pc = "idle"
    /\ c_ep = EpisodeOfCard(BlankCard)

\* The cards it is tried on.  The four finders read different parts of the
\* card, so each part is varied with the others left empty.
MaxTitle == 4
MaxText == 3
MaxImgs == 2
MaxBlocks == 2

TitleTextsOfCards == UNION { [1..n -> TitleWords] : n \in 0..MaxTitle }

RatingNodes == { NoNode, Node("", <<>>), Node("9.1", <<>>), Node("9.1", <<"(12K)">>),
                 Node("9.1", <<"w", "(2)", "(12K)">>) }
RatingSpans == { NoNode, Node("", <<>>), Node("7.9", <<>>) }
RatingTexts == UNION { [1..n -> {"8.5/10", "(2)", "(12K)", "w"}] : n \in 0..MaxText }
Ratings ==
    [imdb_rating : RatingNodes, container : {NoNode, Node("6.0", <<>>)},
     span : RatingSpans, text : RatingTexts]

Imgs ==
    [srcset : { <<>>, <<"Ucdn", " ", "640w">> },
     src : { NoUrlText, <<"Usvg">>, <<"Uicon">>, <<"Ua">>, <<"Ucdn">> },
     width : { "absent", "79", "80", "auto" }]
ImgLists == UNION { [1..n -> Imgs] : n \in 0..MaxImgs }

Blocks ==
    [presentation : BOOLEAN, leaf : BOOLEAN,
     text : {"t10", "t30", "t40", "t90", "code50", "date50"}]
Descs ==
    [marker : { [present |-> FALSE, text |-> ""], [present |-> TRUE, text |-> ""],
                [present |-> TRUE, text |-> "t10"] },
     blocks : UNION { [1..n -> Blocks] : n \in 0..MaxBlocks }]

CardInit ==
    /\ \/ c_card \in [title : TitleTextsOfCards, rating : {NoRating}, imgs : {<<>>}, desc : {NoDesc}]
       \/ c_card \in [title : {<<>>}, rating : Ratings, imgs : {<<>>}, desc : {NoDesc}]
       \/ c_card \in [title : {<<>>}, rating : {NoRating}, imgs : ImgLists, desc : {NoDesc}]
       \/ c_card \in [title : {<<>>}, rating : {NoRating}, imgs : {<<>>}, desc : Descs]
    /\ c_pc = "idle"
    /\ c_ep = EpisodeOfCard(BlankCard)

LaterIdle == ParseIdle /\ TitleIdle /\ DownloadIdle /\ ApiIdle /\ NumIdle /\ ImageIdle /\ MetaIdle /\ CardIdle

(***************************************************************************)
(* The specifications                                                      *)
(***************************************************************************)
HttpNext ==
    \/ \E url \in Urls : http_fetch_call(url) /\ UNCHANGED <<findVars, scrapeVars, poolVars, laterVars>>
    \/ \E r \in Responses(h_url) : http_fetch_attempt(r) /\ UNCHANGED <<findVars, scrapeVars, poolVars, laterVars>>

FindNext == _find_loadmore /\ UNCHANGED <<httpVars, scrapeVars, poolVars, laterVars>>

ScrapeNext ==
    \/ scrape_call /\ UNCHANGED <<findVars, poolVars, laterVars>>
    \/ scrape_http_attempt /\ UNCHANGED <<findVars, poolVars, laterVars>>
    \/ scrape_after_meta /\ UNCHANGED <<findVars, poolVars, laterVars>>
    \/ scrape_select_target /\ UNCHANGED <<findVars, poolVars, laterVars>>
    \/ scrape_parse_raise /\ UNCHANGED <<findVars, poolVars, laterVars>>
    \/ scrape_raise /\ UNCHANGED <<findVars, poolVars, laterVars>>

InitHttp == HttpInit /\ FindIdle /\ ScrapeIdle /\ PoolIdle /\ LaterIdle
SpecHttp == InitHttp /\ [][HttpNext]_vars

InitFind == FindInit /\ HttpIdle /\ ScrapeIdle /\ PoolIdle /\ LaterIdle
SpecFind == InitFind /\ [][FindNext]_vars

InitScrape == ScrapeInit /\ HttpIdle /\ FindIdle /\ PoolIdle /\ LaterIdle
SpecScrape == InitScrape /\ [][ScrapeNext]_vars

InitExpand == ExpandInit /\ HttpIdle /\ FindIdle /\ ScrapeIdle /\ LaterIdle
SpecExpand == InitExpand /\ [][ExpandNext]_vars

\* ... where the event loop goes on running the task: an awaited operation
\* that can return or time out does one of the two
SpecExpandLive == InitExpand /\ [][ExpandNext]_vars /\ WF_vars(ExpandNext)

Init == PoolInit /\ HttpIdle /\ FindIdle /\ ScrapeIdle /\ LaterIdle
Spec == Init /\ [][Next]_vars

Early == <<httpVars, findVars, scrapeVars, numVars, imageVars, metaVars, cardVars>>

ParseNext == parse_episodes /\ UNCHANGED <<Early, poolVars, titleVars, downloadVars, apiVars>>

InitParse == ParseInit /\ HttpIdle /\ FindIdle /\ ScrapeIdle /\ PoolIdle /\ TitleIdle /\ DownloadIdle /\ ApiIdle /\ NumIdle /\ ImageIdle /\ MetaIdle /\ CardIdle
SpecParse == InitParse /\ [][ParseNext]_vars

TitleNext ==
    \/ Next
    \/ asyncio_run_returns /\ UNCHANGED <<Early, apiVars, parseVars, downloadVars>>
    \/ asyncio_run_raises /\ UNCHANGED <<Early, apiVars, parseVars, downloadVars>>
    \/ iter_seasons_next /\ UNCHANGED <<Early, poolVars, apiVars, parseVars, downloadVars>>
    \/ scrape_sort /\ UNCHANGED <<Early, poolVars, apiVars, parseVars, downloadVars>>
    \/ scrape_download /\ UNCHANGED <<Early, poolVars, apiVars, parseVars>>
    \/ scrape_return /\ UNCHANGED <<Early, poolVars, apiVars, parseVars, downloadVars>>
    \/ \E j \in Downloads : bounded(j) /\ UNCHANGED <<Early, poolVars, apiVars, parseVars, r_pc, r_i, r_docs, images_dir>>
    \/ \E j \in Downloads, o \in {"ok", "fail"} :
          _download_one(j, o) /\ UNCHANGED <<Early, poolVars, apiVars, parseVars, r_pc, r_i, r_docs, images_dir>>
    \/ _download_all_return /\ UNCHANGED <<Early, poolVars, apiVars, parseVars, r_pc, r_i, r_docs, images_dir>>

DownloadNext ==
    \/ download_images /\ UNCHANGED <<Early, poolVars, apiVars, parseVars>>
    \/ \E j \in Downloads : bounded(j) /\ UNCHANGED <<Early, poolVars, apiVars, parseVars, r_pc, r_i, r_docs, images_dir>>
    \/ \E j \in Downloads, o \in {"ok", "fail"} :
          _download_one(j, o) /\ UNCHANGED <<Early, poolVars, apiVars, parseVars, r_pc, r_i, r_docs, images_dir>>
    \/ _download_all_return /\ UNCHANGED <<Early, poolVars, apiVars, parseVars, r_pc, r_i, r_docs, images_dir>>

SeasonsNext ==
    \/ season_numbers_return /\ UNCHANGED <<httpVars, findVars, scrapeVars, poolVars, parseVars, titleVars, downloadVars, apiVars, imageVars, metaVars, cardVars>>
    \/ season_numbers_raise /\ UNCHANGED <<httpVars, findVars, scrapeVars, poolVars, parseVars, titleVars, downloadVars, apiVars, imageVars, metaVars, cardVars>>

InitSeasons ==
    NumInit /\ HttpIdle /\ FindIdle /\ ScrapeIdle /\ PoolIdle /\ ParseIdle /\ TitleIdle /\ DownloadIdle /\ ApiIdle /\ ImageIdle /\ MetaIdle /\ CardIdle
SpecSeasons == InitSeasons /\ [][SeasonsNext]_vars

ImageNext ==
    _best_image /\ UNCHANGED <<httpVars, findVars, scrapeVars, poolVars, parseVars, titleVars, downloadVars, apiVars, numVars, metaVars, cardVars>>

InitImage ==
    ImageInit /\ HttpIdle /\ FindIdle /\ ScrapeIdle /\ PoolIdle /\ ParseIdle /\ TitleIdle /\ DownloadIdle /\ ApiIdle /\ NumIdle /\ MetaIdle /\ CardIdle
SpecImage == InitImage /\ [][ImageNext]_vars

MetaNext ==
    parse_series_metadata /\ UNCHANGED <<httpVars, findVars, scrapeVars, poolVars, parseVars, titleVars, downloadVars, apiVars, numVars, imageVars, cardVars>>

InitMeta ==
    MetaInit /\ HttpIdle /\ FindIdle /\ ScrapeIdle /\ PoolIdle /\ ParseIdle /\ TitleIdle /\ DownloadIdle /\ ApiIdle /\ NumIdle /\ ImageIdle /\ CardIdle
SpecMeta == InitMeta /\ [][MetaNext]_vars

CardNext ==
    parse_episodes_card /\ UNCHANGED <<httpVars, findVars, scrapeVars, poolVars, parseVars, titleVars, downloadVars, apiVars, numVars, imageVars, metaVars>>

InitCard ==
    CardInit /\ HttpIdle /\ FindIdle /\ ScrapeIdle /\ PoolIdle /\ ParseIdle /\ TitleIdle /\ DownloadIdle /\ ApiIdle /\ NumIdle /\ ImageIdle /\ MetaIdle
SpecCard == InitCard /\ [][CardNext]_vars

InitDownload == DownloadInit /\ HttpIdle /\ FindIdle /\ ScrapeIdle /\ PoolIdle /\ ParseIdle /\ ApiIdle /\ NumIdle /\ ImageIdle /\ MetaIdle /\ CardIdle
SpecDownload == InitDownload /\ [][DownloadNext]_vars

ModelNext ==
    \/ \E season \in ApiSeasons, episode \in ApiNumbers :
          get_episode(season, episode)
            /\ UNCHANGED <<Early, poolVars, parseVars, titleVars, downloadVars>>
    \/ save /\ UNCHANGED <<Early, poolVars, parseVars, titleVars, downloadVars>>
    \/ load /\ UNCHANGED <<Early, poolVars, parseVars, titleVars, downloadVars>>

InitModel == ApiInit /\ HttpIdle /\ FindIdle /\ ScrapeIdle /\ PoolIdle /\ ParseIdle /\ DownloadIdle /\ NumIdle /\ ImageIdle /\ MetaIdle /\ CardIdle
SpecModel == InitModel /\ [][ModelNext]_vars

InitTitle == TitleInit /\ HttpIdle /\ FindIdle /\ ScrapeIdle /\ ParseIdle /\ DownloadIdle /\ ApiIdle /\ NumIdle /\ ImageIdle /\ MetaIdle /\ CardIdle
SpecTitle == InitTitle /\ [][TitleNext]_vars

(***************************************************************************)
(* The claims                                                              *)
(***************************************************************************)

\* the failures C3 speaks of: a transport error or a non-2xx status
TransportOrStatus(r) == r.kind = "exc" /\ r.exc \in {"ConnectionError", "Timeout", "HTTPError"}

OnlyFailuresBefore(log, n) == \A j \in 1..(n - 1) : TransportOrStatus(log[j])

\* C3: http_fetch returns the parsed document of the first successful GET when
\* at most 2 failures (transport error or non-2xx status) precede it and issues
\* no GET after it; while fewer than 3 such failures have happened and no
\* success, it goes on to the next GET; after 3 failures it has returned None;
\* and it raises on no such failure.
C3_HttpFetchRetries ==
    /\ Len(h_log) <= 3
    /\ \A n \in 1..Len(h_log) :
         (h_log[n].kind = "ok" /\ OnlyFailuresBefore(h_log, n))
           => /\ h_pc = "returned"
              /\ h_result = [kind |-> "soup", soup |-> h_log[n].body]
              /\ Len(h_log) = n
    /\ (h_pc # "idle" /\ OnlyFailuresBefore(h_log, Len(h_log) + 1))
           => IF Len(h_log) < 3
                THEN h_pc = "loop" /\ h_result.kind = "unset"
                ELSE h_pc = "returned" /\ h_result.kind = "None"
    /\ h_pc = "raised" => ~TransportOrStatus(h_log[Len(h_log)])

\* two failures, then a success whose document is returned
C3_Witness ==
    /\ Len(h_log) = 3
    /\ TransportOrStatus(h_log[1])
    /\ TransportOrStatus(h_log[2])
    /\ h_log[3].kind = "ok"
    /\ h_pc = "returned"
    /\ h_result.kind = "soup"
    /\ h_result.soup = h_log[3].body

ReturnedAnchor == f_pc = "returned" /\ f_el # 0 /\ f_page[f_el].tag = "a"

\* an href as C4 describes it: non-empty, not '#', not a javascript: pseudo-URL
\* (white space around it and the case of the scheme not counted)
NavigatingAsClaimed(href) ==
    LET h == Strip(href)
    IN  h # <<>> /\ h # <<"#">> /\ ~(Lower(Head(h)) = "js")

\* C4 as stated: _find_loadmore never returns an anchor whose href is
\* non-empty, is not '#' and is not a javascript: pseudo-URL.
C4_NeverNavigatingAnchor_AsStated ==
    ReturnedAnchor => ~NavigatingAsClaimed(f_page[f_el].href)

\* non-empty, not beginning with '#', not a javascript: pseudo-URL
LeavesPage(href) ==
    LET h == Strip(href)
    IN  h # <<>> /\ Head(h) # "#" /\ ~(Lower(Head(h)) = "js")

\* C4 (amended): _find_loadmore never returns an anchor whose href, trimmed,
\* is non-empty, does not begin with '#' and is not a javascript: pseudo-URL,
\* whichever of the four strategies returns it.
C4_NeverNavigatingAnchor ==
    ReturnedAnchor => ~LeavesPage(f_page[f_el].href)

\* a navigating anchor with matching text comes first and is passed over for
\* an anchor that stays on the page
C4_Witness ==
    /\ ReturnedAnchor
    /\ f_el = 2
    /\ f_page[1].tag = "a"
    /\ LeavesPage(f_page[1].href)
    /\ _INLINE_MORE(f_page[1].text)
    /\ ~f_page[1].aria_disabled

\* C10 as stated: when a selection is supplied (also the empty one), the
\* seasons handed to the renderer are exactly the selection intersected with
\* the season index.
C10_TargetIsIntersection ==
    (s_pc = "render" /\ only_seasons.given)
        => Range(target) = Range(only_seasons.list) \cap Range(all_seasons)

\* a season's _fetch_season_page is in progress: its task is inside `async with sem`
InProgress(i) == task[i].pc \notin {"start", "done", "raised", "cancelled"}

NumInProgress == Cardinality({ i \in Tasks : InProgress(i) })

\* C1: at most pool_size seasons are in progress at any moment (a task that
\* sleeps between two attempts counts), and the slot of every task that has
\* ended, by return, by exception or by cancellation, is back in the semaphore.
C1_PoolBound ==
    /\ NumInProgress <= pool_size
    /\ sem >= 0
    /\ sem + NumInProgress = pool_size

\* the pool is full with a task asleep between two attempts, and another waits
C1_Witness ==
    /\ sem = 0
    /\ \E i \in Tasks : task[i].pc = "backoff"
    /\ \E j \in Tasks : task[j].pc = "start"

ResultOf(i) ==
    IF task[i].pending = "return"
      THEN [season |-> season_nums[i], kind |-> "soup",
            url |-> task[i].html.url, cards |-> task[i].html.cards]
      ELSE [season |-> season_nums[i], kind |-> "None", url |-> "blank", cards |-> 0]

\* C2: a season whose attempts all fail to render ends with (season, None)
\* after exactly 3 attempts; no render failure makes a task raise; the result
\* of every finished season is the one its own page gave it; and when no task
\* raised for another reason, the run returns one result per requested season.
C2_RenderFailureIsContained ==
    /\ \A i \in Tasks :
         /\ (task[i].pc = "done" /\ task[i].pending = "failed") => task[i].attempt = 3
         /\ task[i].pc = "done" => ResultOf(i) \in Range(results)
         /\ task[i].pc = "backoff" => task[i].attempt < 3
         /\ task[i].pc = "raised"
              => task[i].raised_in \in {"new_context", "new_page", "close_page", "close_context"}
    /\ m_pc = "raised" => \E i \in Tasks : task[i].pc = "raised"
    /\ m_pc = "returned" => Len(results) = Len(season_nums)

\* the run returned with (season, None) for one season and a document for another
C2_Witness ==
    /\ m_pc = "returned"
    /\ \E i, j \in Tasks :
         /\ task[i].pending = "failed"
         /\ task[j].pending = "return"
         /\ ResultOf(i) \in Range(results)
         /\ ResultOf(j) \in Range(results)

\* C9: a task has at most one context and one page open; both are open
\* throughout the try block of an attempt and both are closed when the attempt's
\* outcome is acted on (the backoff before the next attempt, the return of the
\* pair); no context is open when fetch_seasons_async returns.
C9_ContextsClosed ==
    /\ \A i \in Tasks :
         /\ task[i].contexts \in {0, 1}
         /\ task[i].pages \in {0, 1}
         /\ task[i].pc \in {"goto", "wait_selector", "scan", "click", "regoto", "rewait",
                            "wait_growth", "wait_idle", "content", "close_page"}
              => task[i].contexts = 1 /\ task[i].pages = 1
         /\ task[i].pc \in {"backoff", "done", "start"}
              => task[i].contexts = 0 /\ task[i].pages = 0
    /\ m_pc = "returned" => \A i \in Tasks : task[i].contexts = 0 /\ task[i].pages = 0

\* the run returned and one season needed all three attempts: two failed, the
\* third gave a document
C9_Witness ==
    /\ m_pc = "returned"
    /\ \E i \in Tasks : task[i].attempt = 3 /\ task[i].pending = "return"

AllMore(st) == \A c \in 1..Len(st.controls) : st.controls[c] = "more"

\* C5: on a page whose N controls each reveal k cards and are consumed by the
\* click, every round starts with initial + clicks * k cards, the loop never
\* takes the idle or the re-navigation path, and when a scan finds no
\* candidate exactly N clicks were made and the page, and the document read
\* from it, hold initial + N * k cards.
C5_ExpansionClicksAll ==
    \A i \in Tasks :
      LET st == site[season_nums[i]]
          t == task[i]
          N == Len(st.controls)
      IN  AllMore(st) =>
            /\ t.pc \in {"scan", "click"} => t.cards = st.initial + t.click_count * st.k
            /\ t.pc \notin {"wait_idle", "regoto", "rewait"}
            /\ t.loop_end # "aborted"
            /\ t.loop_end = "done" => t.click_count = N
            /\ (t.loop_end = "done" /\ t.pc = "content") => t.cards = st.initial + N * st.k
            /\ (t.loop_end = "done" /\ t.pending = "return")
                 => t.html.cards = st.initial + N * st.k

\* two controls of two cards each: two clicks, four more cards in the document
C5_Witness ==
    \E i \in Tasks :
      /\ AllMore(site[season_nums[i]])
      /\ Len(site[season_nums[i]].controls) = 2
      /\ site[season_nums[i]].k = 2
      /\ task[i].loop_end = "done"
      /\ task[i].pending = "return"
      /\ task[i].click_count = 2
      /\ task[i].html.cards = site[season_nums[i]].initial + 4

\* C6 as stated: after a URL change was detected and the page re-navigated,
\* the document returned holds at least the cards counted just before the
\* drifting click.
C6_DriftKeepsContent ==
    \A i \in Tasks :
      (task[i].loop_end = "aborted" /\ task[i].pending = "return")
          => task[i].html.cards >= task[i].before_count

DiscoveryFoundNothing ==
    \/ season_soup.kind = "None"
    \/ /\ season_soup.kind = "soup"
       /\ ~ParseSeasonNumbersRaises(season_soup.soup)
       /\ parse_season_numbers(season_soup.soup) = <<>>

\* C11 as stated: when season discovery finds nothing, the seasons handed to
\* the renderer are exactly season 1, whatever selection was requested.
C11_FallbackRendersSeasonOne ==
    (s_pc = "render" /\ DiscoveryFoundNothing) => target = <<1>>

\* the keys of a dict, in iteration order, are strictly ascending
Ascending(keys) == \A i, j \in 1..Len(keys) : i < j => keys[i] < keys[j]

\* the seasons in the order their renders completed
Completed == [i \in 1..Len(results) |-> results[i].season]

\* C12: from the moment scrape has assembled the aggregate, through the image
\* downloads and at the return, the season keys of info.seasons iterate in
\* strictly ascending order, in whatever order the renders completed.
C12_SeasonKeysAscending ==
    r_pc \in {"assembled", "download", "returned"} => Ascending(Keys(info.seasons))

\* season 2 rendered before season 1, the images were downloaded, and the
\* returned aggregate iterates season 1 first
C12_Witness ==
    /\ r_pc = "returned"
    /\ Completed = <<2, 1>>
    /\ Keys(info.seasons) = <<1, 2>>
    /\ d_pc = "returned"
    /\ jobs # <<>>

\* the seasons whose render returned a document
Rendered == { results[i].season : i \in { j \in 1..Len(results) : results[j].kind = "soup" } }

\* C13: the season keys of the aggregate scrape returns are exactly the
\* requested seasons whose render returned a document, each once: a season
\* whose render gave None is absent, and a season whose document holds no
\* card is present with an empty episode list.
C13_KeysAreRenderedSeasons ==
    r_pc = "returned" =>
      /\ Range(Keys(info.seasons)) = Rendered
      /\ Rendered \subseteq Range(season_nums)
      /\ Cardinality(Range(Keys(info.seasons))) = Len(info.seasons)
      /\ \A i \in 1..Len(results) :
           (results[i].kind = "soup" /\ results[i].cards = 0)
              => \E k \in 1..Len(info.seasons) :
                   info.seasons[k].key = results[i].season /\ info.seasons[k].eps = <<>>

\* one season failed three times and is absent, the other gave a document
\* without cards and is present with no episodes
C13_Witness ==
    /\ r_pc = "returned"
    /\ \E i, j \in 1..Len(results) :
         /\ results[i].kind = "None"
         /\ results[i].season \notin Range(Keys(info.seasons))
         /\ results[j].kind = "soup"
         /\ results[j].cards = 0
         /\ Item(results[j].season, <<>>) \in Range(info.seasons)

InFlight == { j \in Downloads : d_task[j].pc = "get" }

\* what C14 says of every state (d_task[j].attempt counts the GETs of item j)
C14_State ==
    /\ \A j \in Downloads :
         /\ d_task[j].attempt <= 3
         /\ d_task[j].pc = "start" => d_task[j].attempt = 0
         /\ (d_task[j].pc = "done" /\ d_task[j].attempt = 0)
              => d_task[j].ok /\ jobs[j].dest \in files
         /\ (d_task[j].pc = "done" /\ ~d_task[j].ok) => d_task[j].attempt = 3
         /\ (d_task[j].pc = "done" /\ d_task[j].ok) => jobs[j].dest \in files
    /\ d_pc \in {"idle", "gather", "returned"}
    /\ d_pc = "returned" => \A j \in Downloads : d_task[j].pc = "done"
    /\ d_pc = "gather" => d_sem + Cardinality(InFlight) = d_pool
    /\ (d_pc = "gather" /\ \E j \in Downloads : d_task[j].pc = "start")
         => d_sem > 0 \/ InFlight # {}

\* ... and of every step: an item whose destination exists when its turn
\* comes is left without a GET, and a GET of one item changes no other item
C14_Step ==
    \A j \in Downloads :
      /\ (d_task[j].pc = "start" /\ jobs[j].dest \in files)
           => d_task'[j].attempt = 0
      /\ (d_task[j].pc = "start" /\ jobs[j].dest \in files /\ d_task'[j] # d_task[j])
           => d_task'[j].pc = "done" /\ d_task'[j].ok
      /\ d_task[j].pc = "done" => d_task'[j] = d_task[j]

\* C14: no GET is issued for a destination that exists, and the item counts
\* as saved; any other item gets at most 3 GETs and is failed only after the
\* third; _download_all does not raise, it returns when every item is done;
\* an item that failed has given its slot back, so that the others go on.
C14_DownloaderRetriesEachItem == []C14_State /\ [][C14_Step]_vars

\* the downloads are over: one item was there already, one failed three
\* times, one was saved at its second attempt
C14_Witness ==
    /\ d_pc = "returned"
    /\ \E a, b, c \in Downloads :
         /\ d_task[a].skipped /\ d_task[a].attempt = 0 /\ d_task[a].ok
         /\ ~d_task[b].ok /\ d_task[b].attempt = 3
         /\ d_task[c].ok /\ d_task[c].attempt = 2

AllEpisodes(t) == UNION { Range(t.seasons[i].eps) : i \in 1..Len(t.seasons) }

\* C16: get_episode(season, episode) returns None when the aggregate holds no
\* record with that season and that episode number, and otherwise a record
\* whose season and episode number are the arguments.
C16_GetEpisodeByPair ==
    q_pc = "returned" =>
        IF \E ep \in AllEpisodes(info) : ep.season = q_args[1] /\ ep.episode = q_args[2]
          THEN /\ q_out \in AllEpisodes(info)
               /\ q_out.season = q_args[1]
               /\ q_out.episode = q_args[2]
          ELSE q_out = NoEpisode

\* C17: after save and load the loaded aggregate equals the saved one: every
\* metadata field, the season keys (strings in the file, integers again after
\* load) and their order, and every field of every episode, in order.
C17_SaveLoadRoundTrip ==
    /\ io_pc # "idle" =>
         /\ Len(disk.seasons) = Len(info.seasons)
         /\ \A i \in 1..Len(info.seasons) : disk.seasons[i].key = str(info.seasons[i].key)
    /\ io_pc = "loaded" =>
         /\ loaded.meta = info.meta
         /\ Keys(loaded.seasons) = Keys(info.seasons)
         /\ \A i \in 1..Len(info.seasons) : loaded.seasons[i].key \in Nat
         /\ \A i \in 1..Len(info.seasons) : loaded.seasons[i].eps = info.seasons[i].eps
         /\ loaded = info

\* seasons 2 and 10 with episodes that have a cover, none, and a local file,
\* and the full metadata, went through the file
C17_Witness ==
    /\ io_pc = "loaded"
    /\ info.meta = FullMeta
    /\ Keys(info.seasons) = <<2, 10>>
    /\ disk.seasons[2].key = <<1, 0>>
    /\ \E ep \in AllEpisodes(info) : ep.cover_image = "None"
    /\ \E ep \in AllEpisodes(info) : ep.cover_image_local # NoPath

\* the numbers a strategy's elements show
Numbers(texts) == { ToInt(texts[i]) : i \in { j \in 1..Len(texts) : decimal(texts[j]) } }

\* the numbers of the first strategy, in the order tabs, options, links, that
\* has any
FirstWithNumbers(soup) ==
    IF Numbers(soup.tabs) # {} THEN Numbers(soup.tabs)
    ELSE IF Numbers(soup.options) # {} THEN Numbers(soup.options)
    ELSE Numbers(soup.links)

\* C18 for a call that returned: the list holds the numbers of the first
\* strategy that has any, strictly ascending (so without duplicates), and it
\* is empty when no strategy has one
C18_WhenReturned ==
    n_pc = "returned" =>
        /\ Range(n_out) = FirstWithNumbers(n_soup)
        /\ Ascending(n_out)

\* C18: parse_season_numbers returns, for every index page, the numbers of
\* the first of its three strategies that yields one, as a strictly ascending
\* list without duplicates (tabs 3, 1, 2, 1 give 1, 2, 3; no match gives the
\* empty list).
C18_FirstStrategySortedDeduplicated ==
    /\ n_pc \in {"idle", "returned"}
    /\ C18_WhenReturned
    /\ (n_pc = "returned" /\ n_soup.tabs = <<"3", "1", "2", "1">>) => n_out = <<1, 2, 3>>

\* an element no tier of _find_episode_cards takes: every tier asks for the
\* S#.E# text, and for an article or a data-testid containing "episode"
NoCard(x) == ~x.se \/ (x.tag # "article" /\ ~x.testid_episode)

\* C19: for a document in which no tier finds a card, parse_episodes ends
\* without raising and has yielded nothing.
C19_NoCardsYieldNothing ==
    /\ p_pc \in {"idle", "returned"}
    /\ (p_pc = "returned" /\ \A i \in 1..Len(p_doc) : NoCard(p_doc[i])) => p_out = <<>>

\* the document held a promo article without S#.E# text and a div with the
\* text but neither an episode test id nor an article tag
C19_Witness ==
    /\ p_pc = "returned"
    /\ p_out = <<>>
    /\ Len(p_doc) = 2
    /\ \E i \in 1..2 : p_doc[i].tag = "article" /\ ~p_doc[i].se
    /\ \E i \in 1..2 : p_doc[i].tag = "div" /\ p_doc[i].se /\ ~p_doc[i].testid_episode

\* the season list eps holds one Episode per card, in the cards' order
OnePerCard(eps, cards) ==
    /\ Len(eps) = Len(cards)
    /\ \A k \in 1..Len(cards) :
         /\ eps[k].episode_code = cards[k].code
         /\ eps[k].season = cards[k].code[1]
         /\ eps[k].episode = cards[k].code[2]
         /\ eps[k].cover_image = cards[k].cover

C21_NoDuplicatePair ==
    p_pc = "returned" =>
        \A i, j \in 1..Len(p_out) :
            i # j => <<p_out[i].season, p_out[i].episode>> # <<p_out[j].season, p_out[j].episode>>

\* the width a descriptor declares
DeclaredWidth(desc) ==
    IF desc = "320w" THEN 320 ELSE IF desc = "640w" THEN 640 ELSE IF desc = "1000w" THEN 1000 ELSE 0

\* C22: when every entry of the srcset carries a width and the entries are
\* separated by a comma and white space, _best_image returns the URL of an
\* entry of the largest width, whole (commas inside it included), in
\* whatever order the entries stand.
C22_BestImageIsWidest ==
    (/\ b_pc = "returned"
     /\ b_img.entries # <<>>
     /\ b_img.sep # <<",">>
     /\ \A i \in 1..Len(b_img.entries) : b_img.entries[i].desc # "")
    => \E i \in 1..Len(b_img.entries) :
          /\ b_out = b_img.entries[i].url
          /\ \A j \in 1..Len(b_img.entries) :
                DeclaredWidth(b_img.entries[j].desc) <= DeclaredWidth(b_img.entries[i].desc)

\* widths 320, 1000, 640 in this order, the widest on the URL with commas
\* inside, which is returned whole
C22_Witness ==
    /\ b_pc = "returned"
    /\ Len(b_img.entries) = 3
    /\ b_img.entries[1].desc = "320w"
    /\ b_img.entries[2] = [url |-> <<"Uc", ",", "x", ",", "x">>, desc |-> "1000w"]
    /\ b_img.entries[3].desc = "640w"
    /\ b_out = <<"Uc", ",", "x", ",", "x">>

\* C23: rating_count is the capture of the last "/10 <count>" match of the
\* rating block's text, and None when the block is absent or has no match.
C23_RatingCountIsLastMatch ==
    g_pc = "returned" =>
        LET hits == IF g_soup.agg = Absent THEN {}
                    ELSE { i \in 1..(Len(g_soup.agg) - 1) :
                             g_soup.agg[i] = "/10" /\ g_soup.agg[i + 1] \in {"8.2", "47K"} }
        IN  IF hits = {} THEN g_meta.rating_count = "None"
            ELSE g_meta.rating_count = g_soup.agg[(CHOOSE i \in hits : \A j \in hits : j <= i) + 1]

\* the block read "/10 8.2 /10 47K": the score rendered again, then the votes
C23_Witness ==
    /\ g_pc = "returned"
    /\ g_soup.agg = <<"/10", "8.2", "/10", "47K">>
    /\ g_meta.rating_count = "47K"

\* what an element gives as a name: nothing when it is absent or empty
NameGiven(text) == IF text = Absent THEN <<>> ELSE SelectSeq(text, LAMBDA w : w # " ")

\* C25 as stated: the name is the heading's text; if that gives none, the
\* <title> without its trailing qualifiers; if that gives none, the og:title
\* content; and the identifier only if none of the three gives a name.
C25_SeriesNamePriorityChain ==
    g_pc = "returned" =>
        g_meta.series_name =
            IF NameGiven(g_soup.hero) # <<>> THEN NameGiven(g_soup.hero)
            ELSE IF g_soup.title # Absent /\ DropYear(DropSuffix(g_soup.title)) # <<>>
              THEN DropYear(DropSuffix(g_soup.title))
            ELSE IF NameGiven(g_soup.og) # <<>> THEN NameGiven(g_soup.og)
            ELSE TitleId

\* an episode with its local path left out of the comparison
ButLocal(ep) == [ep EXCEPT !.cover_image_local = NoPath]

\* two aggregates that differ at most in the episodes' cover_image_local
SameButLocal(a, b) ==
    /\ a.meta = b.meta
    /\ Len(a.seasons) = Len(b.seasons)
    /\ \A i \in 1..Len(a.seasons) :
         /\ a.seasons[i].key = b.seasons[i].key
         /\ Len(a.seasons[i].eps) = Len(b.seasons[i].eps)
         /\ \A k \in 1..Len(a.seasons[i].eps) :
              ButLocal(a.seasons[i].eps[k]) = ButLocal(b.seasons[i].eps[k])

\* C24: no step of download_images, from the call to the return of the
\* downloads, changes the aggregate otherwise than in the cover_image_local
\* of its episodes: the metadata, the season keys and their order, the order
\* of the episodes and their other fields stay.
C24_DownloadChangesOnlyLocalPath == [][SameButLocal(info, info')]_vars

\* the downloads are over and an episode has got a local path
C24_Witness ==
    /\ d_pc = "returned"
    /\ Len(info.seasons) = 2
    /\ \E k \in 1..Len(info.seasons[2].eps) :
         /\ info.seasons[2].eps[k].cover_image_local # NoPath
         /\ info.seasons[2].eps[k].cover_image = "a.jpg"
    /\ \E k \in 1..Len(info.seasons[1].eps) : info.seasons[1].eps[k].cover_image = "None"

\* C26 as stated: iter_seasons yields as each page finishes rendering: once
\* a season's entry is in `results` and not yet gone through, its round of
\* iter_seasons can be taken while another requested season still renders.
C26_YieldsAsEachPageFinishes ==
    (/\ r_pc \in {"render", "iter"}
     /\ r_i < Len(results)
     /\ \E j \in Tasks : InProgress(j))
        => ENABLED iter_seasons_next

\* The candidates of the four strategies on the page, said of the elements:
\* enabled buttons with a matching text; anchors that do not navigate, have
\* a matching text and are not aria-disabled; per marker and tag the first
\* marked element, when it does not navigate and is not aria-disabled; the
\* labelled elements that do not navigate and are not aria-disabled.
Navigates(e) == e.tag = "a" /\ e.href # <<>> /\ Strip(e.href) # <<>>
                /\ Head(Strip(e.href)) \notin {"#", "JS", "js"}
Candidates1 ==
    { i \in 1..Len(f_page) : f_page[i].tag = "button" /\ ~f_page[i].disabled
                             /\ f_page[i].text = "12 more" }
Candidates2 ==
    { i \in 1..Len(f_page) : f_page[i].tag = "a" /\ ~Navigates(f_page[i])
                             /\ ~f_page[i].aria_disabled /\ f_page[i].text = "12 more" }
Candidates3 ==
    { i \in 1..Len(f_page) :
        /\ f_page[i].testid # ""
        /\ \A j \in 1..(i - 1) : ~(f_page[j].tag = f_page[i].tag
                                   /\ f_page[j].testid = f_page[i].testid)
        /\ ~Navigates(f_page[i]) /\ ~f_page[i].aria_disabled }
Candidates4 ==
    { i \in 1..Len(f_page) : f_page[i].aria_label_more /\ ~Navigates(f_page[i])
                             /\ ~f_page[i].aria_disabled }

\* C27: _find_loadmore returns a candidate of the first of the four
\* strategies, in their order, that has one (for the text strategies the
\* first in document order), and None only when none of the four has one.
C27_FirstStrategyWithCandidateWins ==
    f_pc = "returned" =>
        IF Candidates1 # {} THEN f_el = Min(Candidates1)
        ELSE IF Candidates2 # {} THEN f_el = Min(Candidates2)
        ELSE IF Candidates3 # {} THEN f_el \in Candidates3
        ELSE IF Candidates4 # {} THEN f_el \in Candidates4
        ELSE f_el = 0

\* a labelled anchor comes first in the document, a button with a matching
\* text second: the button is returned
C27_Witness ==
    /\ f_pc = "returned"
    /\ Len(f_page) = 2
    /\ 1 \in Candidates4 /\ f_page[1].tag = "a"
    /\ 2 \in Candidates1
    /\ f_el = 2

\* the places of the loop of _expand_episodes
InLoop(i) == task[i].pc \in {"scan", "click", "regoto", "rewait", "wait_growth", "wait_idle"}

\* C28 as stated: _expand_episodes terminates: once its loop is entered it
\* is left after finitely many clicks, also on a page whose load-more
\* candidate stays and whose card count never grows.
C28_ExpansionTerminates ==
    \A i \in {1} : (task[i].pc = "scan") ~> ~InLoop(i)

\* what C29 says of every state: the loop is left in one of the four ways,
\* an attempt that returns a document is followed by no backoff, and its
\* pair (season, document) is the task's result
C29_State ==
    \A i \in Tasks :
      /\ task[i].pc = "content" => task[i].loop_end \in {"done", "aborted", "error", "timeout"}
      /\ task[i].pending = "return"
           => /\ task[i].pc \in {"close_page", "close_context", "done", "raised"}
              /\ task[i].loop_end \in {"done", "aborted", "error", "timeout"}
      /\ (task[i].pc = "done" /\ task[i].pending = "return")
           => Soup(season_nums[i], task[i].html) \in Range(results)

\* ... and of every step: no step of the click, of the drift recovery or of
\* the waits makes the attempt fail; once the loop is left, the read of the
\* page, when it returns, gives the page as it stands; and the attempt that
\* returned a document is the task's last
C29_Step ==
    \A i \in Tasks :
      /\ task[i].pc \in {"click", "regoto", "rewait", "wait_growth", "wait_idle"}
           => task'[i].pending # "failed"
      /\ (task[i].pc = "content" /\ task'[i].pending = "return")
           => task'[i].html = [url |-> task[i].url, cards |-> task[i].cards]
      /\ task[i].pending = "return"
           => /\ task'[i].attempt = task[i].attempt
              /\ task'[i].pending = "return"
              /\ task'[i].html = task[i].html

\* C29: once the first card has appeared, however the expansion loop ends
\* (no candidate, drift, click error, timeout of the click or of a wait),
\* the attempt goes on to read the page and returns (season, document) with
\* the content as it then stands, not None, and the season is not retried.
C29_ExpansionEndNeverFailsAttempt == []C29_State /\ [][C29_Step]_vars

\* the click timed out with the candidate still there, and the first attempt
\* has returned the document with the cards revealed before
C29_Witness ==
    \E i \in Tasks :
      /\ task[i].pc = "done"
      /\ task[i].attempt = 1
      /\ task[i].loop_end = "timeout"
      /\ task[i].click_count >= 1
      /\ task[i].html.cards >= 2
      /\ results = <<Soup(season_nums[i], task[i].html)>>

\* C30 as stated: an error of new_context, new_page, page.close or
\* context.close is contained: no task ends by raising, every task that has
\* ended has its pair in `results` ((season, None) only after the third
\* attempt), and fetch_seasons_async does not raise.
C30_ContextErrorsContained ==
    /\ \A i \in Tasks :
         Ended(task[i])
           => /\ task[i].pc = "done"
              /\ ResultOf(i) \in Range(results)
              /\ task[i].pending = "failed" => task[i].attempt = 3
    /\ m_pc # "raised"

\* how many entries of a list of pairs, and of season_nums, are for season n
PairsOf(n) == Cardinality({ k \in 1..Len(results) : results[k].season = n })
EntriesOf(n) == Cardinality({ k \in 1..Len(season_nums) : season_nums[k] = n })

\* C31: when no task raised, fetch_seasons_async returns exactly one pair,
\* a document or None, for each entry of season_nums: none is lost and none
\* is there twice, in whatever order the tasks finished and for every
\* pool_size >= 1.
C31_OnePairPerSeason ==
    m_pc = "returned" =>
        /\ Len(results) = Len(season_nums)
        /\ \A n \in 1..MaxSeason : PairsOf(n) = EntriesOf(n)
        /\ \A k \in 1..Len(results) : results[k].kind \in {"soup", "None"}

\* two seasons over a pool of one slot returned, the second requested season
\* first in the list, one of them as None
C31_Witness ==
    /\ m_pc = "returned"
    /\ pool_size = 1
    /\ season_nums = <<2, 1>>
    /\ Len(results) = 2
    /\ results[1].season = 1 /\ results[1].kind = "None"
    /\ results[2].season = 2 /\ results[2].kind = "soup"

\* the marked elements that pass strategy 3's filter, first of their kind or not
PassingMarked ==
    { i \in 1..Len(f_page) :
        /\ f_page[i].testid \in {"see-more", "load-more", "expand"}
        /\ ~Navigates(f_page[i])
        /\ ~f_page[i].aria_disabled }

\* C32 as stated: when the two text strategies have no candidate and some
\* marked element passes the filter, _find_loadmore returns an element (a
\* marked one that passes), whether or not that element is the first of
\* its marker and tag.
C32_Strategy3AnyPassingElement ==
    (f_pc = "returned" /\ Candidates1 = {} /\ Candidates2 = {} /\ PassingMarked # {})
        => f_el \in PassingMarked

\* the elements of the document that each tier takes, by position
InTier1 == { k \in 1..Len(p_doc) : p_doc[k].tag = "article" /\ p_doc[k].ep_link /\ p_doc[k].se }
InTier2 == { k \in 1..Len(p_doc) : p_doc[k].testid_episode /\ p_doc[k].se }
InTier3 == { k \in 1..Len(p_doc) : p_doc[k].tag = "article" /\ p_doc[k].se }
FirstTier == IF InTier1 # {} THEN InTier1 ELSE IF InTier2 # {} THEN InTier2 ELSE InTier3

C34_TitleSplitAndCode ==
    c_pc = "returned" =>
        LET raw == c_card.title
            seps == { i \in 1..Len(raw) : raw[i] \in {"bullet", "middot"} }
            first == CHOOSE i \in seps : \A j \in seps : i <= j
            code == IF seps = {} THEN raw ELSE SubSeq(raw, 1, first - 1)
            starts == code # <<>> /\ code[1] \in {"S1.E2", "S01.E02", "s2.e1"}
        IN  /\ c_ep.episode_code = code
            /\ c_ep.title = IF seps = {} THEN raw ELSE SubSeq(raw, first + 1, Len(raw))
            /\ starts => <<c_ep.season, c_ep.episode>> = IF code[1] = "s2.e1" THEN <<2, 1>> ELSE <<1, 2>>
            /\ ~starts => <<c_ep.season, c_ep.episode>> = <<0, 0>>

\* "S01.E02 . Pilot . Ep": two separators, the code written with leading zeros
C34_Witness ==
    /\ c_pc = "returned"
    /\ c_card.title = <<"S01.E02", "bullet", "Pilot", "middot">>
    /\ c_ep.episode_code = <<"S01.E02">>
    /\ c_ep.title = <<"Pilot", "middot">>
    /\ c_ep.season = 1 /\ c_ep.episode = 2

\* which of the places _find_rating looks at holds a score
ScoreInGroup(node) == node.present /\ node.label # ""
ScoreWords == { i \in 1..Len(c_card.rating.text) : c_card.rating.text[i] = "8.5/10" }

\* the groups of a text after word `from`, by position
GroupsAfter(text, from) == { i \in (from + 1)..Len(text) : text[i] \in {"(2)", "(12K)"} }

\* C35 as stated: the rating is "N/A" exactly when no strategy finds a
\* score; otherwise it is "<score>/10", and " (<votes>)" is appended only
\* when a parenthesized group follows the score, that group being the one
\* appended (for a rating group the score is read from its label, and any
\* group of its text counts as following it).
C35_RatingAndFollowingVotes ==
    c_pc = "returned" =>
        LET r == c_card.rating
            text == IF ScoreInGroup(r.imdb_rating) THEN r.imdb_rating.text
                    ELSE IF ScoreInGroup(r.container) THEN r.container.text
                    ELSE IF ScoreInGroup(r.span) THEN <<>>
                    ELSE r.text
            from == IF ScoreInGroup(r.imdb_rating) \/ ScoreInGroup(r.container) \/ ScoreInGroup(r.span)
                      THEN 0
                    ELSE IF ScoreWords # {} THEN Min(ScoreWords) ELSE 0
            score == IF ScoreInGroup(r.imdb_rating) THEN r.imdb_rating.label
                     ELSE IF ScoreInGroup(r.container) THEN r.container.label
                     ELSE IF ScoreInGroup(r.span) THEN r.span.label
                     ELSE "8.5"
            found == ScoreInGroup(r.imdb_rating) \/ ScoreInGroup(r.container)
                     \/ ScoreInGroup(r.span) \/ ScoreWords # {}
        IN  /\ c_ep.rating = <<"N/A">> <=> ~found
            /\ found => c_ep.rating[1] = score \o "/10"
            /\ (found /\ Len(c_ep.rating) = 2)
                 => /\ GroupsAfter(text, from) # {}
                    /\ c_ep.rating[2] = text[Min(GroupsAfter(text, from))]

\* the images of the card by what the claim tells them apart
CdnImages == { i \in 1..Len(c_card.imgs) :
                 "Ucdn" \in Pieces(c_card.imgs[i].srcset) \cup Pieces(c_card.imgs[i].src) }
WideImages == { i \in 1..Len(c_card.imgs) : c_card.imgs[i].width = "80" }
PlainImages == { i \in 1..Len(c_card.imgs) : c_card.imgs[i].src \in {<<"Ua">>, <<"Ucdn">>} }
BestOf(i) == BestImage(c_card.imgs[i].srcset, c_card.imgs[i].src)

\* C36 as stated: the cover is taken from an image on the media CDN if the
\* card has one; else from the first image whose declared width is at least
\* 80; else, only when no image is that wide, from the first image that is
\* neither a vector nor an icon; else it is None.
C36_CoverImageByPriority ==
    c_pc = "returned" =>
        IF CdnImages # {} THEN \E i \in CdnImages : c_ep.cover_image = BestOf(i)
        ELSE IF WideImages # {} THEN c_ep.cover_image = BestOf(Min(WideImages))
        ELSE IF PlainImages # {} THEN c_ep.cover_image = BestOf(Min(PlainImages))
        ELSE c_ep.cover_image = NoUrlText

\* the blocks of the card by what the claim tells them apart
LongPresentation ==
    { i \in 1..Len(c_card.desc.blocks) :
        c_card.desc.blocks[i].presentation /\ c_card.desc.blocks[i].text \in {"t40", "t90", "code50", "date50"} }
QualifyingLeaves ==
    { i \in 1..Len(c_card.desc.blocks) :
        c_card.desc.blocks[i].leaf /\ c_card.desc.blocks[i].text \in {"t40", "t90"} }
Longest(at) ==
    { i \in at : \A j \in at : TextLen(c_card.desc.blocks[j].text) <= TextLen(c_card.desc.blocks[i].text) }

\* C37 as stated: in a card without a marker element the description is the
\* text of the longest presentation block of more than 30 characters; only
\* when there is none, that of the longest qualifying leaf block; and the
\* empty string when nothing qualifies.
C37_DescriptionLongestBlock ==
    (c_pc = "returned" /\ ~c_card.desc.marker.present) =>
        IF LongPresentation # {}
          THEN \E i \in Longest(LongPresentation) : c_ep.description = c_card.desc.blocks[i].text
        ELSE IF QualifyingLeaves # {}
          THEN \E i \in Longest(QualifyingLeaves) : c_ep.description = c_card.desc.blocks[i].text
        ELSE c_ep.description = ""

\* the jobs whose download failed: three attempts and no file
FailedJobs == { j \in Downloads : d_task[j].pc = "done" /\ ~d_task[j].ok }

\* C38: after download_images has returned, cover_image_local is None for
\* every episode without a cover URL, and for every episode with one it is
\* the path S<season>E<episode><ext> under the title's directory, whether
\* its download succeeded or failed.
C38_LocalPathSetForEveryCover ==
    d_pc = "returned" =>
        \A i \in 1..Len(info.seasons) : \A k \in 1..Len(info.seasons[i].eps) :
            LET ep == info.seasons[i].eps[k]
            IN  IF ep.cover_image \in {"None", ""}
                  THEN ep.cover_image_local = NoPath
                  ELSE ep.cover_image_local =
                         [kind |-> "path", season |-> ep.season, episode |-> ep.episode,
                          ext |-> IF ep.cover_image = "b.png" THEN ".png" ELSE ".jpg"]

\* returned with the download of season 2's first episode failed: the path
\* is set all the same, and an episode without a cover has none
C38_Witness ==
    /\ d_pc = "returned"
    /\ \E j \in FailedJobs : jobs[j].dest = LocalPath(2, 1, ".jpg")
    /\ \E i \in 1..Len(info.seasons) : \E k \in 1..Len(info.seasons[i].eps) :
         /\ info.seasons[i].eps[k].cover_image_local = LocalPath(2, 1, ".jpg")
         /\ LocalPath(2, 1, ".jpg") \notin files
    /\ \E i \in 1..Len(info.seasons) : \E k \in 1..Len(info.seasons[i].eps) :
         info.seasons[i].eps[k].cover_image = "None"

\* C39 as stated: the jobs download_images creates have destinations that
\* differ from one another.
C39_JobDestinationsDistinct ==
    \A i, j \in Downloads : i # j => jobs[i].dest # jobs[j].dest

====
